---- MODULE Spec2Model ----
(***************************************************************************)
(* Object-variant cache and orientation-reuse protocol of the tammiegotchi *)
(* server (the express part of src/public/app.js, lines 794-1218).         *)
(*                                                                         *)
(* The server is a single node.js process: a handler runs uninterrupted    *)
(* from its entry to its first await and from the settlement of that await *)
(* to its response.  The only await of a handler is the generator          *)
(* subprocess, so each asynchronous handler is two actions (start, return) *)
(* and each synchronous handler is one.  The settlement of the await is    *)
(* the moment the handler observes the generator's exit; the output file   *)
(* of a successful call is on disk at that moment.                         *)
(***************************************************************************)
EXTENDS Naturals, Integers, Sequences, FiniteSets, TLC

----------------------------------------------------------------------------
(* Bounds *)

\* number of HTTP requests the server can have open at once
MaxReqs == 2
\* number of output files outputFileAbsolute can name in one run
MaxFiles == 2
\* the client part looks at the tiles (x, y) of the world with 0 <= x <= MaxX
\* and 0 <= y <= MaxY; the player starts at (0, 0)
MaxX == 1
MaxY == 1
\* number of create and edit requests a page has in flight at a time
MaxOps == 2

Reqs == 1..MaxReqs

----------------------------------------------------------------------------
(* Values *)

Orientations == {"north", "south", "east", "west"}

\* a request body field that is not present
Undefined == "<undefined>"

\* playerFacing / orientation values a client can send
FacingInputs == Orientations \cup {"up", Undefined}

Body3(name, prompt, playerFacing) ==
  [name |-> name, prompt |-> prompt, playerFacing |-> playerFacing]

\* prompt / objectKey texts a client can send, as sequences of characters;
\* << >> is the empty string (a missing prompt is coerced to it)
PromptInputs ==
  { << >>,
    <<"a", " ", "b">>,
    <<" ", "A", "\t", " ", "B", " ">>,
    <<"_", "_", "p", "r", "o", "t", "o", "_", "_">> }

\* image URLs: the n-th file named by outputFileAbsolute is URL n; URL 0 is
\* the empty string (falsy); PresetUrl is a file named in a snapshot that an
\* earlier run of the server wrote
PresetUrl == MaxFiles + 1

\* request bodies of POST /api/generate-object: every valid combination of
\* the inputs, one body without a name and one without a prompt
CreateBodies ==
  {Body3("donut", p, f) : p \in PromptInputs \ {<< >>}, f \in FacingInputs}
    \cup {Body3("", <<"a", " ", "b">>, "south"), Body3("donut", << >>, "south")}

\* request bodies of POST /api/uncache-object-orientation, likewise
UncacheBodies ==
  {[objectKey |-> p, orientation |-> f] :
      p \in PromptInputs \ {<< >>}, f \in FacingInputs \ {Undefined}}
    \cup {[objectKey |-> << >>, orientation |-> "south"],
          [objectKey |-> <<"a", " ", "b">>, orientation |-> Undefined]}

Miss == [hit |-> FALSE]

NoReq == [kind |-> "none"]

----------------------------------------------------------------------------
(* Pure helpers: src/public/app.js 822-842 *)

IsSpace(c) == c \in {" ", "\t"}

ToLowerChar(c) ==
  IF c = "A" THEN "a" ELSE IF c = "B" THEN "b" ELSE c

RECURSIVE TrimStart(_)
TrimStart(s) ==
  IF s = << >> THEN << >>
  ELSE IF IsSpace(Head(s)) THEN TrimStart(Tail(s)) ELSE s

RECURSIVE TrimEnd(_)
TrimEnd(s) ==
  IF s = << >> THEN << >>
  ELSE IF IsSpace(s[Len(s)]) THEN TrimEnd(SubSeq(s, 1, Len(s) - 1)) ELSE s

\* String.prototype.trim
Trim(s) == TrimEnd(TrimStart(s))

\* String.prototype.toLowerCase
ToLowerCase(s) == [i \in 1..Len(s) |-> ToLowerChar(s[i])]

\* .replace(/\s+/g, ' '): every maximal run of whitespace becomes one space
RECURSIVE CollapseSpaces(_)
CollapseSpaces(s) ==
  IF s = << >> THEN << >>
  ELSE IF IsSpace(Head(s))
       THEN <<" ">> \o CollapseSpaces(TrimStart(s))
       ELSE <<Head(s)>> \o CollapseSpaces(Tail(s))

\* a variant of normalizeObjectKey without toLowerCase
normalizeObjectKeyKeepsCase(text) == CollapseSpaces(Trim(text))

normalizeObjectKey(text) == CollapseSpaces(ToLowerCase(Trim(text)))

\* a variant of normalizeFacing whose default is north
normalizeFacingDefaultsNorth(facing) ==
  IF facing \in {"north", "south", "east", "west"} THEN facing ELSE "north"

normalizeFacing(facing) ==
  IF facing \in {"north", "south", "east", "west"} THEN facing ELSE "south"

\* a variant of oppositeFacing that does not turn the object to face the
\* player
oppositeFacingSame(facing) == normalizeFacing(facing)

\* a variant of oppositeFacing that turns a quarter instead of a half
oppositeFacingQuarter(facing) ==
  LET f == normalizeFacing(facing) IN
  IF f = "north" THEN "east"
  ELSE IF f = "east" THEN "south"
  ELSE IF f = "south" THEN "west"
  ELSE "north"

oppositeFacing(facing) ==
  LET f == normalizeFacing(facing) IN
  IF f = "north" THEN "south"
  ELSE IF f = "south" THEN "north"
  ELSE IF f = "east" THEN "west"
  ELSE "east"

\* normalizeObjectKey over the texts a client can send, evaluated once
ObjectKeyOf == [text \in PromptInputs |-> normalizeObjectKey(text)]

\* the object keys the create handler can compute
ObjectKeys == {normalizeObjectKey(p) : p \in PromptInputs \ {<< >>}}

----------------------------------------------------------------------------
(* State *)

VARIABLES
  booted,           \* loadCache() has run and the server listens
  objectImageCache, \* the in-memory VariantTable: the own properties of the
                    \* object, key -> facing -> variant
  objectPrototype,  \* the properties the server has added to
                    \* Object.prototype, which every entry map of the table
                    \* ({} literals and JSON.parse results) inherits from
  cacheFile,        \* CACHE_FILE: missing, corrupt or a written table
  files,            \* URLs whose image file exists under PUBLIC_DIR
  writable,         \* CACHE_FILE can be written (fs.writeFileSync succeeds);
                    \* fixed for a run: the storage is writable or it is not
  apiKey,           \* process.env.GEMINI_API_KEY is set
  nextFile,         \* number of output files named so far
  pc,               \* per request: "idle", "awaitReorient", "awaitCold"
  req,              \* per request: the locals of the suspended handler, with
                    \* the --edit argument of its generator call (0: none)
                    \* and the number of generator calls it has made
  sent,             \* the response sent last, with the request it answers
  served,           \* (key, facing) pairs a create has answered 200 for, with
                    \* no uncache and no file deletion since
  objects,          \* the client's state.objects: tile -> object
  fetched,          \* the request that the client's last step has issued
                    \* with fetch(), if any
  player,           \* the client's state.player: x, y, facing
  modal,            \* the client's state.modalOpen, with the locals of the
                    \* function that awaits showPrompt()
  ops               \* the client's interact() calls that await a response:
                    \* opId -> the locals of the call

\* the state of the server, and the state of the client (a browser page)
serverVars == <<booted, objectImageCache, objectPrototype, cacheFile, files,
                writable, apiKey, nextFile, pc, req, sent, served>>

clientVars == <<objects, fetched, player, modal, ops>>

vars == <<booted, objectImageCache, objectPrototype, cacheFile, files,
          writable, apiKey, nextFile, pc, req, sent, served, objects,
          fetched, player, modal, ops>>

\* the state of the page when it has loaded
PageLoaded ==
  /\ objects = << >>
  /\ fetched = [kind |-> "none"]
  /\ player = [x |-> 0, y |-> 0, facing |-> "south"]
  /\ modal = [open |-> FALSE]
  /\ ops = << >>

----------------------------------------------------------------------------
(* Variant cache: src/public/app.js 912-971 *)

\* a table entry.  updatedAt (Date.now()) is written and never read by the
\* server; it is left out of the entry.
Variant(imageUrl) == [imageUrl |-> imageUrl]

EmptyTable == << >>

\* a one-entry table, as JSON.parse yields it
Table1(objectKey, facing, imageUrl) ==
  [k \in {objectKey} |-> [f \in {facing} |-> Variant(imageUrl)]]

\* CACHE_FILE: absent, not parseable, or the JSON text of a table
MissingFile == [kind |-> "missing"]
CorruptFile == [kind |-> "corrupt"]
JsonFile(table) == [kind |-> "json", value |-> table]

\* contents CACHE_FILE can have when the server starts: no file, a damaged
\* file, or a snapshot written by an earlier run
InitialCacheFiles ==
  { MissingFile, CorruptFile, JsonFile(EmptyTable),
    JsonFile(Table1(<<"a", " ", "b">>, "north", PresetUrl)) }

\* fs.existsSync(absFromImageUrl(imageUrl))
ExistsSync(imageUrl) == imageUrl \in files

\* a variant of loadCache that never reads the snapshot
loadCacheResultIgnoresFile(file) == EmptyTable

\* the table loadCache leaves in objectImageCache
loadCacheResult(file) ==
  IF file.kind = "missing" THEN EmptyTable
  ELSE IF file.kind = "corrupt" THEN EmptyTable
  ELSE file.value

\* the key of the accessor Object.prototype.__proto__
ProtoKey == <<"_", "_", "p", "r", "o", "t", "o", "_", "_">>

\* objectImageCache[objectKey]: an own property of the table; for the key
\* "__proto__", which the table never holds as an own property, the
\* accessor's value Object.prototype; else undefined.  (Keys that name other
\* properties of Object.prototype are not among the inputs.)
ObjectOf(objectKey) ==
  IF objectKey \in DOMAIN objectImageCache
  THEN [ref |-> "own", props |-> objectImageCache[objectKey]]
  ELSE IF objectKey = ProtoKey
  THEN [ref |-> "proto", props |-> objectPrototype]
  ELSE [ref |-> "undefined"]

\* obj[facing]: an own property of obj, or the one obj inherits from
\* Object.prototype
Prop(obj, facing) ==
  IF facing \in DOMAIN obj.props
  THEN [found |-> TRUE, variant |-> obj.props[facing]]
  ELSE IF facing \in DOMAIN objectPrototype
  THEN [found |-> TRUE, variant |-> objectPrototype[facing]]
  ELSE [found |-> FALSE]

\* obj[facing] = variant, on the own properties of obj
Put(props, facing, variant) ==
  [f \in DOMAIN props \cup {facing} |->
     IF f = facing THEN variant ELSE props[f]]

\* delete obj[facing], on the own properties of obj
Delete(props, facing) == [f \in DOMAIN props \ {facing} |-> props[f]]

\* a variant of getCachedVariant with the existsSync test inverted
getCachedVariantInverted(objectKey, facing) ==
  LET obj == ObjectOf(objectKey) IN
  IF obj.ref = "undefined" THEN Miss
  ELSE LET variant == Prop(obj, facing) IN
    IF ~variant.found THEN Miss
    ELSE IF variant.variant.imageUrl = 0 THEN Miss
    ELSE IF ExistsSync(variant.variant.imageUrl) THEN Miss
    ELSE [hit |-> TRUE, imageUrl |-> variant.variant.imageUrl]

getCachedVariant(objectKey, facing) ==
  LET obj == ObjectOf(objectKey) IN
  IF obj.ref = "undefined" THEN Miss
  ELSE LET variant == Prop(obj, facing) IN
    IF ~variant.found THEN Miss
    ELSE IF variant.variant.imageUrl = 0 THEN Miss
    ELSE IF ~ExistsSync(variant.variant.imageUrl) THEN Miss
    ELSE [hit |-> TRUE, imageUrl |-> variant.variant.imageUrl]

\* a variant of rememberVariant that keeps the entry a pair already has
rememberVariantKeepsFirst(objectKey, facing, imageUrl) ==
  LET obj == ObjectOf(objectKey) IN
  IF obj.ref # "undefined" /\ Prop(obj, facing).found
  THEN [cache |-> objectImageCache, proto |-> objectPrototype]
  ELSE IF obj.ref = "proto"
  THEN [cache |-> objectImageCache,
        proto |-> Put(objectPrototype, facing, Variant(imageUrl))]
  ELSE [cache |->
          [k \in DOMAIN objectImageCache \cup {objectKey} |->
             IF k = objectKey
             THEN Put(IF obj.ref = "own" THEN obj.props ELSE << >>,
                      facing, Variant(imageUrl))
             ELSE objectImageCache[k]],
        proto |-> objectPrototype]

\* a variant of rememberVariant that starts the key's entry map afresh
rememberVariantResetsKey(objectKey, facing, imageUrl) ==
  [cache |->
     [k \in DOMAIN objectImageCache \cup {objectKey} |->
        IF k = objectKey THEN Put(<< >>, facing, Variant(imageUrl))
        ELSE objectImageCache[k]],
   proto |-> objectPrototype]

\* rememberVariant before its saveCache(): the table and Object.prototype
\* after objectImageCache[objectKey][facing] = {imageUrl, updatedAt}.  The
\* entry map is created only when objectImageCache[objectKey] is falsy; for
\* the key "__proto__" it is Object.prototype, and the variant becomes a
\* property of Object.prototype.
rememberVariant(objectKey, facing, imageUrl) ==
  LET obj == ObjectOf(objectKey) IN
  IF obj.ref = "proto"
  THEN [cache |-> objectImageCache,
        proto |-> Put(objectPrototype, facing, Variant(imageUrl))]
  ELSE [cache |->
          [k \in DOMAIN objectImageCache \cup {objectKey} |->
             IF k = objectKey
             THEN Put(IF obj.ref = "own" THEN obj.props ELSE << >>,
                      facing, Variant(imageUrl))
             ELSE objectImageCache[k]],
        proto |-> objectPrototype]

\* a variant of removeVariant without the Object.keys(obj).length test: the
\* identity keeps its entry map when the last orientation goes
removeVariantKeepsKey(objectKey, facing) ==
  LET obj == ObjectOf(objectKey) IN
  IF obj.ref = "undefined" \/ ~Prop(obj, facing).found
  THEN [removed |-> FALSE, cache |-> objectImageCache,
        proto |-> objectPrototype]
  ELSE IF obj.ref = "proto"
  THEN [removed |-> TRUE, cache |-> objectImageCache,
        proto |-> Delete(objectPrototype, facing)]
  ELSE [removed |-> TRUE,
        cache |-> [objectImageCache EXCEPT
                     ![objectKey] = Delete(obj.props, facing)],
        proto |-> objectPrototype]

\* removeVariant before its saveCache(): the value it returns, and the
\* table and Object.prototype after its deletes.  delete removes an own
\* property only; Object.keys lists own properties only.
removeVariant(objectKey, facing) ==
  LET obj == ObjectOf(objectKey) IN
  IF obj.ref = "undefined" \/ ~Prop(obj, facing).found
  THEN [removed |-> FALSE, cache |-> objectImageCache,
        proto |-> objectPrototype]
  ELSE IF obj.ref = "proto"
  THEN [removed |-> TRUE, cache |-> objectImageCache,
        proto |-> Delete(objectPrototype, facing)]
  ELSE LET rest == Delete(obj.props, facing) IN
    [removed |-> TRUE,
     cache |-> IF DOMAIN rest = {}
               THEN [k \in DOMAIN objectImageCache \ {objectKey} |->
                       objectImageCache[k]]
               ELSE [objectImageCache EXCEPT ![objectKey] = rest],
     proto |-> objectPrototype]

\* saveCache: JSON.stringify writes the own properties of the table, and the
\* text replaces the snapshot, or writeFileSync throws
saveCache(table) ==
  cacheFile' = IF writable THEN JsonFile(table) ELSE cacheFile

\* a variant of the scan order that leaves north out
ScanOrderNoNorth == <<"south", "east", "west">>

\* the order of anyCachedVariant's loop (line 966)
ScanOrder == <<"south", "east", "west", "north">>

RECURSIVE anyCachedVariantFrom(_, _)
anyCachedVariantFrom(objectKey, i) ==
  IF i > Len(ScanOrder) THEN Miss
  ELSE LET hit == getCachedVariant(objectKey, ScanOrder[i]) IN
    IF hit.hit
    THEN [hit |-> TRUE, facing |-> ScanOrder[i], imageUrl |-> hit.imageUrl]
    ELSE anyCachedVariantFrom(objectKey, i + 1)

\* a variant of anyCachedVariant that gives up after the first orientation
anyCachedVariantFirstOnly(objectKey) ==
  IF ObjectOf(objectKey).ref = "undefined" THEN Miss
  ELSE LET hit == getCachedVariant(objectKey, ScanOrder[1]) IN
    IF hit.hit
    THEN [hit |-> TRUE, facing |-> ScanOrder[1], imageUrl |-> hit.imageUrl]
    ELSE Miss

anyCachedVariant(objectKey) ==
  IF ObjectOf(objectKey).ref = "undefined" THEN Miss
  ELSE anyCachedVariantFrom(objectKey, 1)

----------------------------------------------------------------------------
(* Startup *)

NoneSent == [kind |-> "none"]

\* a variant of FreeSlot for a server that takes a request in only when no
\* other request is in flight
FreeSlotWhenQuiet(r) ==
  /\ pc[r] = "idle"
  /\ \A q \in Reqs : pc[q] = "idle"
  /\ \A q \in Reqs : r <= q

\* the connection a new request arrives on: the lowest one that is free
\* (connections are interchangeable)
FreeSlot(r) ==
  /\ pc[r] = "idle"
  /\ \A q \in Reqs : q < r => pc[q] # "idle"

Init ==
  /\ booted = FALSE
  /\ objectImageCache = EmptyTable
  /\ objectPrototype = << >>
  /\ cacheFile \in InitialCacheFiles
  /\ files = {PresetUrl}
  /\ writable \in BOOLEAN
  /\ apiKey \in BOOLEAN
  /\ nextFile = 0
  /\ pc = [r \in Reqs |-> "idle"]
  /\ req = [r \in Reqs |-> NoReq]
  /\ sent = NoneSent
  /\ served = {}
  /\ PageLoaded

\* loadCache(); app.listen(PORT)
LoadCache ==
  /\ ~booted
  /\ booted' = TRUE
  /\ objectImageCache' = loadCacheResult(cacheFile)
  /\ UNCHANGED <<objectPrototype, cacheFile, files, writable, apiKey,
                 nextFile, pc, req, sent, served>>
  /\ UNCHANGED clientVars

----------------------------------------------------------------------------
(* POST /api/generate-object: src/public/app.js 1040-1112, 1149 *)

\* a response, tagged with the request it answers: the handler, the path the
\* handler took, the generator subprocesses it started and the normalized
\* (key, facing) pair it computed from the request body
Answer(kind, path, calls, k, f, body) ==
  [kind |-> kind, path |-> path, genCalls |-> calls,
   reqKey |-> k, reqFacing |-> f] @@ body

\* a variant of the validation branch that answers with a server error
RejectedAsServerError(kind) ==
  [kind |-> kind, path |-> "invalid", genCalls |-> 0, status |-> 500]

\* the 400 response to a request body that fails validation
Rejected(kind) ==
  [kind |-> kind, path |-> "invalid", genCalls |-> 0, status |-> 400]

\* res.status(code).json({ error })
ErrorBody(code) == [status |-> code]

\* handleGenerateObject from its entry to its first await or its response.
\* runGenerator's own code before its await (the GEMINI_API_KEY test) is
\* part of this step.
GenerateObjectStart(r, name, prompt, playerFacing) ==
  /\ booted
  /\ FreeSlot(r)
  /\ IF name = "" \/ prompt = << >>
     THEN /\ sent' = Rejected("create")
          /\ UNCHANGED <<nextFile, pc, req, served>>
     ELSE
       LET objectFacing == oppositeFacing(playerFacing)
           objectKey == ObjectKeyOf[prompt]
           exact == getCachedVariant(objectKey, objectFacing)
           existingAny == anyCachedVariant(objectKey)
           path == IF existingAny.hit THEN "reorient" ELSE "cold"
           out == nextFile + 1
       IN
       IF exact.hit
       THEN /\ sent' = Answer("create", "exact", 0, objectKey, objectFacing,
                 [status |-> 200, name |-> name, imageUrl |-> exact.imageUrl,
                  cached |-> TRUE, objectKey |-> objectKey,
                  orientation |-> objectFacing])
            /\ served' = served \cup {<<objectKey, objectFacing>>}
            /\ UNCHANGED <<nextFile, pc, req>>
       ELSE
         /\ nextFile < MaxFiles
         /\ nextFile' = out
         /\ UNCHANGED served
         /\ IF ~apiKey
            THEN /\ sent' = Answer("create", path, 0, objectKey, objectFacing,
                                   ErrorBody(500))
                 /\ UNCHANGED <<pc, req>>
            ELSE /\ pc' = [pc EXCEPT ![r] =
                      IF existingAny.hit THEN "awaitReorient" ELSE "awaitCold"]
                 /\ req' = [req EXCEPT ![r] =
                      [kind |-> "create", path |-> path, name |-> name,
                       objectFacing |-> objectFacing, objectKey |-> objectKey,
                       existingAny |-> existingAny, out |-> out,
                       editAbs |-> IF existingAny.hit
                                   THEN existingAny.imageUrl ELSE 0,
                       genCalls |-> 1]]
                 /\ UNCHANGED sent
  /\ UNCHANGED <<booted, objectImageCache, objectPrototype, cacheFile, files,
                 writable, apiKey>>
  /\ UNCHANGED clientVars

\* the part of handleGenerateObject after an await that resolved (lines
\* 1073-1081, 1101-1108): rememberVariant and the 200 response, or the 500
\* response when saveCache throws
GeneratorSucceeded(r) ==
  LET l == req[r] IN
  /\ files' = files \cup {l.out}
  /\ objectImageCache' =
       rememberVariant(l.objectKey, l.objectFacing, l.out).cache
  /\ objectPrototype' =
       rememberVariant(l.objectKey, l.objectFacing, l.out).proto
  /\ saveCache(objectImageCache')
  /\ IF writable
     THEN /\ sent' = Answer("create", l.path, l.genCalls,
                           l.objectKey, l.objectFacing,
               (IF l.path = "reorient"
                THEN [reorientedFrom |-> l.existingAny.facing]
                ELSE << >>) @@
               [status |-> 200, name |-> l.name, imageUrl |-> l.out,
                cached |-> FALSE, objectKey |-> l.objectKey,
                orientation |-> l.objectFacing])
          /\ served' = served \cup {<<l.objectKey, l.objectFacing>>}
     ELSE /\ sent' = Answer("create", l.path, l.genCalls,
                           l.objectKey, l.objectFacing, ErrorBody(500))
          /\ UNCHANGED served

\* a variant of the rejection branch that answers a failed reorient with the
\* image it was to be derived from
GeneratorFailedFallsBack(r) ==
  LET l == req[r] IN
  /\ sent' = Answer("create", l.path, l.genCalls, l.objectKey, l.objectFacing,
               IF l.path = "reorient"
               THEN [status |-> 200, name |-> l.name, imageUrl |-> l.editAbs,
                     cached |-> FALSE, objectKey |-> l.objectKey,
                     orientation |-> l.objectFacing]
               ELSE ErrorBody(500))
  /\ UNCHANGED <<files, objectImageCache, objectPrototype, cacheFile,
                 served>>

\* the part of handleGenerateObject after an await that rejected (lines
\* 1082-1084, 1109-1111): the 500 response.  The generator script is outside
\* this code; a call that fails is taken to leave no output file, and a call
\* that succeeds to have written it.
GeneratorFailed(r) ==
  /\ sent' = Answer("create", req[r].path, req[r].genCalls,
                    req[r].objectKey, req[r].objectFacing, ErrorBody(500))
  /\ UNCHANGED <<files, objectImageCache, objectPrototype, cacheFile,
                 served>>

AfterGenerator(r, ok) ==
  IF ok THEN GeneratorSucceeded(r) ELSE GeneratorFailed(r)

\* lines 1065-1084: the reorient call settles (exit, failure or timeout)
ReorientReturn(r, ok) ==
  /\ pc[r] = "awaitReorient"
  /\ pc' = [pc EXCEPT ![r] = "idle"]
  /\ req' = [req EXCEPT ![r] = NoReq]
  /\ AfterGenerator(r, ok)
  /\ UNCHANGED <<booted, writable, apiKey, nextFile>>
  /\ UNCHANGED clientVars

\* lines 1089-1111: the cold call settles (exit, failure or timeout)
ColdReturn(r, ok) ==
  /\ pc[r] = "awaitCold"
  /\ pc' = [pc EXCEPT ![r] = "idle"]
  /\ req' = [req EXCEPT ![r] = NoReq]
  /\ AfterGenerator(r, ok)
  /\ UNCHANGED <<booted, writable, apiKey, nextFile>>
  /\ UNCHANGED clientVars

----------------------------------------------------------------------------
(* POST /api/uncache-object-orientation: src/public/app.js 1201-1208 *)

Uncache(r, objectKey, orientation) ==
  /\ booted
  /\ FreeSlot(r)
  /\ IF objectKey = << >> \/ orientation \in {"", Undefined}
     THEN /\ sent' = Rejected("uncache")
          /\ UNCHANGED <<objectImageCache, objectPrototype, cacheFile,
                         served>>
     ELSE
       LET k == ObjectKeyOf[objectKey]
           f == normalizeFacing(orientation)
       IN
       /\ objectImageCache' = removeVariant(k, f).cache
       /\ objectPrototype' = removeVariant(k, f).proto
       /\ served' = {}
       /\ IF ~removeVariant(k, f).removed
          THEN /\ sent' = Answer("uncache", "remove", 0, k, f,
                    [status |-> 200, removed |-> FALSE])
               /\ UNCHANGED cacheFile
          ELSE /\ saveCache(objectImageCache')
               /\ sent' = Answer("uncache", "remove", 0, k, f,
                    (IF writable THEN [status |-> 200, removed |-> TRUE]
                     ELSE ErrorBody(500)))
  /\ UNCHANGED <<booted, files, writable, apiKey, nextFile, pc, req>>
  /\ UNCHANGED clientVars

----------------------------------------------------------------------------
(* The environment *)

\* an image file under public/generated is deleted from outside the server
DeleteFile(u) ==
  /\ u \in files
  /\ files' = files \ {u}
  /\ served' = {}
  /\ UNCHANGED <<booted, objectImageCache, objectPrototype, cacheFile,
                 writable, apiKey, nextFile, pc, req, sent>>
  /\ UNCHANGED clientVars

----------------------------------------------------------------------------

Next ==
  \/ LoadCache
  \/ \E r \in Reqs, b \in CreateBodies :
       GenerateObjectStart(r, b.name, b.prompt, b.playerFacing)
  \/ \E r \in Reqs, ok \in BOOLEAN : ReorientReturn(r, ok)
  \/ \E r \in Reqs, ok \in BOOLEAN : ColdReturn(r, ok)
  \/ \E r \in Reqs, b \in UncacheBodies :
       Uncache(r, b.objectKey, b.orientation)
  \/ \E u \in files : DeleteFile(u)

Spec == Init /\ [][Next]_vars

TypeOK ==
  /\ booted \in BOOLEAN
  /\ nextFile \in 0..MaxFiles
  /\ \A r \in Reqs : pc[r] \in {"idle", "awaitReorient", "awaitCold"}

----------------------------------------------------------------------------
(* POST /api/edit-object and POST /api/generate-wall-texture:               *)
(* src/public/app.js 973-987, 1114-1147, 1151, 1168-1199                     *)

\* a path or a URL path as the sequence of its segments: "/generated/x" is
\* <<"generated", "x">>, and a text that ends in "/" has "" as last segment
PUBLIC_DIR == <<"root", "public">>

GENERATED_DIR == PUBLIC_DIR \o <<"generated">>

\* MASTER_WALL_TEXTURE, as a member of files when it is on disk
MASTER_WALL_TEXTURE == MaxFiles + 2

\* the URL out.url of the n-th output file, and of the file of a snapshot
UrlOf(n) == <<"generated", ToString(n)>>

\* imageUrl values a client can send to edit-object: no field, a number, or
\* a string
NoImageUrl == [type |-> "undefined"]
NumberImageUrl == [type |-> "number"]
StringImageUrl(text) == [type |-> "string", text |-> text]

ImageUrlTexts ==
  { UrlOf(PresetUrl),
    UrlOf(MaxFiles),
    <<"generated", "..", "generated", ToString(PresetUrl)>>,
    <<"generated", "">>,
    <<"generated">>,
    <<"generated", "x", "..">>,
    <<"generated", "..", "object-image-cache.json">>,
    <<"generated", "x", "..", "..", "assets", "wall_bricks.png">>,
    <<"generated", "..", "..", "..", "..", "etc", "passwd">>,
    <<"generatedX", "a.png">>,
    <<"assets", "wall_bricks.png">>,
    << >> }

ImageUrlInputs ==
  {NoImageUrl, NumberImageUrl} \cup {StringImageUrl(t) : t \in ImageUrlTexts}

\* request bodies of POST /api/edit-object
EditBody(name, imageUrl, interaction) ==
  [name |-> name, imageUrl |-> imageUrl, interaction |-> interaction]

EditBodies ==
  {EditBody("donut", u, "give it sunglasses") : u \in ImageUrlInputs}
    \cup {EditBody("", StringImageUrl(UrlOf(PresetUrl)), "give it sunglasses"),
          EditBody("donut", StringImageUrl(UrlOf(PresetUrl)), "")}

\* prompt values a client can send to generate-wall-texture: no field, a
\* number, the empty string or a text
WallPromptInputs == {Undefined, "<number>", "", "mossy stone"}

\* path.normalize of an absolute path, segment by segment: "" and "." are
\* dropped, ".." removes the segment before it, and stays at the root
RECURSIVE NormalizeFrom(_, _)
NormalizeFrom(done, rest) ==
  IF rest = << >> THEN done
  ELSE IF Head(rest) \in {"", "."} THEN NormalizeFrom(done, Tail(rest))
  ELSE IF Head(rest) = ".."
  THEN NormalizeFrom(IF done = << >> THEN << >>
                     ELSE SubSeq(done, 1, Len(done) - 1), Tail(rest))
  ELSE NormalizeFrom(Append(done, Head(rest)), Tail(rest))

\* the normalized path, and whether its text ends in a separator
Normalize(segments) ==
  [path |-> NormalizeFrom(<< >>, segments),
   slash |-> segments # << >> /\ segments[Len(segments)] = ""]

\* norm.startsWith(genNorm), genNorm being GENERATED_DIR with a separator
StartsWithGenerated(norm) ==
  /\ Len(norm.path) >= Len(GENERATED_DIR)
  /\ SubSeq(norm.path, 1, Len(GENERATED_DIR)) = GENERATED_DIR
  /\ Len(norm.path) > Len(GENERATED_DIR) \/ norm.slash

\* a variant of assertSafeGeneratedPath that tests the prefix of the URL only
assertSafeGeneratedPathPrefixOnly(imageUrl) ==
  IF imageUrl.type # "string" \/ imageUrl.text = << >>
  THEN [throws |-> TRUE]
  ELSE IF ~(Len(imageUrl.text) >= 2 /\ imageUrl.text[1] = "generated")
  THEN [throws |-> TRUE]
  ELSE [throws |-> FALSE,
        norm |-> Normalize(PUBLIC_DIR \o imageUrl.text).path]

\* assertSafeGeneratedPath(imageUrl): throws, or returns the normalized path
assertSafeGeneratedPath(imageUrl) ==
  IF imageUrl.type # "string" \/ imageUrl.text = << >>
  THEN [throws |-> TRUE]
  ELSE IF ~(Len(imageUrl.text) >= 2 /\ imageUrl.text[1] = "generated")
  THEN [throws |-> TRUE]
  ELSE LET norm == Normalize(PUBLIC_DIR \o imageUrl.text) IN
       IF ~StartsWithGenerated(norm) THEN [throws |-> TRUE]
       ELSE [throws |-> FALSE, norm |-> norm.path]

\* a response of the edit and wall-texture handlers, tagged with the handler,
\* the branch it left by and the number of generator subprocesses it started
Reply(kind, path, calls, body) ==
  [kind |-> kind, path |-> path, genCalls |-> calls] @@ body

\* a variant of the credentials test that never finds them missing
MissingApiKeyNever == FALSE

\* runGenerator, lines 1020-1024: GEMINI_API_KEY is not set, and runGenerator
\* throws before the subprocess is started
MissingApiKey == ~apiKey

\* handleEditObject from its entry to its await or its response
EditObjectStart(r, name, imageUrl, interaction) ==
  /\ booted
  /\ FreeSlot(r)
  /\ IF name = "" \/ imageUrl = NoImageUrl
        \/ imageUrl = StringImageUrl(<< >>) \/ interaction = ""
     THEN /\ sent' = Rejected("edit")
          /\ UNCHANGED <<nextFile, pc, req>>
     ELSE IF assertSafeGeneratedPath(imageUrl).throws
     THEN /\ sent' = Reply("edit", "unsafe", 0, ErrorBody(400))
          /\ UNCHANGED <<nextFile, pc, req>>
     ELSE
       /\ nextFile < MaxFiles
       /\ nextFile' = nextFile + 1
       /\ IF MissingApiKey
          THEN /\ sent' = Reply("edit", "edit", 0, ErrorBody(500))
               /\ UNCHANGED <<pc, req>>
          ELSE /\ pc' = [pc EXCEPT ![r] = "awaitEdit"]
               /\ req' = [req EXCEPT ![r] =
                    [kind |-> "edit", path |-> "edit", name |-> name,
                     editAbs |-> assertSafeGeneratedPath(imageUrl).norm,
                     out |-> nextFile + 1, genCalls |-> 1]]
               /\ UNCHANGED sent
  /\ UNCHANGED <<booted, objectImageCache, objectPrototype, cacheFile, files,
                 writable, apiKey, served>>
  /\ UNCHANGED clientVars

\* the response to an edit whose generator call has settled, tagged with
\* the --edit argument of the call
EditReply(l, ok) ==
  [reqEditAbs |-> l.editAbs] @@
  Reply("edit", "edit", l.genCalls,
        IF ok THEN [status |-> 200, name |-> l.name, imageUrl |-> UrlOf(l.out)]
        ELSE ErrorBody(500))

\* a variant of the edit return that, on success, makes every entry of the
\* table that points at the edited image point at the new one
EditReturnRepoints(r, ok) ==
  /\ pc[r] = "awaitEdit"
  /\ pc' = [pc EXCEPT ![r] = "idle"]
  /\ req' = [req EXCEPT ![r] = NoReq]
  /\ sent' = EditReply(req[r], ok)
  /\ files' = IF ok THEN files \cup {req[r].out} ELSE files
  /\ objectImageCache' =
       IF ~ok THEN objectImageCache
       ELSE [k \in DOMAIN objectImageCache |->
              [f \in DOMAIN objectImageCache[k] |->
                 IF GENERATED_DIR
                      \o <<ToString(objectImageCache[k][f].imageUrl)>>
                    = req[r].editAbs
                 THEN Variant(req[r].out)
                 ELSE objectImageCache[k][f]]]
  /\ UNCHANGED <<booted, objectPrototype, cacheFile, writable, apiKey,
                 nextFile, served>>
  /\ UNCHANGED clientVars

\* lines 1136-1146: the edit call settles (exit, failure or timeout)
EditReturn(r, ok) ==
  /\ pc[r] = "awaitEdit"
  /\ pc' = [pc EXCEPT ![r] = "idle"]
  /\ req' = [req EXCEPT ![r] = NoReq]
  /\ sent' = EditReply(req[r], ok)
  /\ files' = IF ok THEN files \cup {req[r].out} ELSE files
  /\ UNCHANGED <<booted, objectImageCache, objectPrototype, cacheFile,
                 writable, apiKey, nextFile, served>>
  /\ UNCHANGED clientVars

\* a variant of the master-texture test that never finds it missing
MasterWallTextureMissingNever == FALSE

\* !fs.existsSync(MASTER_WALL_TEXTURE), line 1173
MasterWallTextureMissing == ~ExistsSync(MASTER_WALL_TEXTURE)

\* the generate-wall-texture handler from its entry to its await or its
\* response
WallTextureStart(r, prompt) ==
  /\ booted
  /\ FreeSlot(r)
  /\ IF prompt \in {Undefined, "", "<number>"}
     THEN /\ sent' = Rejected("wall")
          /\ UNCHANGED <<nextFile, pc, req>>
     ELSE IF MasterWallTextureMissing
     THEN /\ sent' = Reply("wall", "nomaster", 0, ErrorBody(500))
          /\ UNCHANGED <<nextFile, pc, req>>
     ELSE
       /\ nextFile < MaxFiles
       /\ nextFile' = nextFile + 1
       /\ IF MissingApiKey
          THEN /\ sent' = Reply("wall", "wall", 0, ErrorBody(500))
               /\ UNCHANGED <<pc, req>>
          ELSE /\ pc' = [pc EXCEPT ![r] = "awaitWall"]
               /\ req' = [req EXCEPT ![r] =
                    [kind |-> "wall", path |-> "wall",
                     refAbs |-> MASTER_WALL_TEXTURE,
                     out |-> nextFile + 1, genCalls |-> 1]]
               /\ UNCHANGED sent
  /\ UNCHANGED <<booted, objectImageCache, objectPrototype, cacheFile, files,
                 writable, apiKey, served>>
  /\ UNCHANGED clientVars

\* a variant of the wall-texture return that calls the generator a second
\* time when the first call fails
WallReturnRetries(r, ok) ==
  /\ pc[r] = "awaitWall"
  /\ IF ok \/ req[r].genCalls > 1
     THEN /\ pc' = [pc EXCEPT ![r] = "idle"]
          /\ req' = [req EXCEPT ![r] = NoReq]
          /\ files' = IF ok THEN files \cup {req[r].out} ELSE files
          /\ sent' = Reply("wall", "wall", req[r].genCalls,
                           IF ok THEN [status |-> 200,
                                       imageUrl |-> UrlOf(req[r].out)]
                           ELSE ErrorBody(500))
     ELSE /\ req' = [req EXCEPT ![r].genCalls = @ + 1]
          /\ UNCHANGED <<pc, files, sent>>
  /\ UNCHANGED <<booted, objectImageCache, objectPrototype, cacheFile,
                 writable, apiKey, nextFile, served>>
  /\ UNCHANGED clientVars

\* lines 1187-1198: the wall-texture call settles (exit, failure or timeout)
WallReturn(r, ok) ==
  /\ pc[r] = "awaitWall"
  /\ pc' = [pc EXCEPT ![r] = "idle"]
  /\ req' = [req EXCEPT ![r] = NoReq]
  /\ IF ok
     THEN /\ files' = files \cup {req[r].out}
          /\ sent' = Reply("wall", "wall", req[r].genCalls,
                           [status |-> 200, imageUrl |-> UrlOf(req[r].out)])
     ELSE /\ sent' = Reply("wall", "wall", req[r].genCalls, ErrorBody(500))
          /\ UNCHANGED files
  /\ UNCHANGED <<booted, objectImageCache, objectPrototype, cacheFile,
                 writable, apiKey, nextFile, served>>
  /\ UNCHANGED clientVars

\* the server with the three handlers that call runGenerator.  The create
\* requests are those for one identity and two orientations, and
\* MASTER_WALL_TEXTURE is on disk or not.
GenCreateBodies ==
  {Body3("donut", <<"a", " ", "b">>, f) : f \in {"south", "east"}}

GenInit ==
  /\ booted = FALSE
  /\ objectImageCache = EmptyTable
  /\ objectPrototype = << >>
  /\ cacheFile \in InitialCacheFiles
  /\ files \in {{PresetUrl}, {PresetUrl, MASTER_WALL_TEXTURE}}
  /\ writable \in BOOLEAN
  /\ apiKey \in BOOLEAN
  /\ nextFile = 0
  /\ pc = [r \in Reqs |-> "idle"]
  /\ req = [r \in Reqs |-> NoReq]
  /\ sent = NoneSent
  /\ served = {}
  /\ PageLoaded

GenNext ==
  \/ LoadCache
  \/ \E r \in Reqs, b \in GenCreateBodies :
       GenerateObjectStart(r, b.name, b.prompt, b.playerFacing)
  \/ \E r \in Reqs, ok \in BOOLEAN : ReorientReturn(r, ok)
  \/ \E r \in Reqs, ok \in BOOLEAN : ColdReturn(r, ok)
  \/ \E r \in Reqs, b \in EditBodies :
       EditObjectStart(r, b.name, b.imageUrl, b.interaction)
  \/ \E r \in Reqs, ok \in BOOLEAN : EditReturn(r, ok)
  \/ \E r \in Reqs, p \in WallPromptInputs : WallTextureStart(r, p)
  \/ \E r \in Reqs, ok \in BOOLEAN : WallReturn(r, ok)

GenSpec == GenInit /\ [][GenNext]_vars

\* execFileAsync is given timeout: 180000 (line 1030): the subprocess exits
\* by itself or is killed after 180 seconds, and the await settles
GenFairness ==
  \A r \in Reqs :
    /\ WF_vars(\E ok \in BOOLEAN : ReorientReturn(r, ok))
    /\ WF_vars(\E ok \in BOOLEAN : ColdReturn(r, ok))
    /\ WF_vars(\E ok \in BOOLEAN : EditReturn(r, ok))
    /\ WF_vars(\E ok \in BOOLEAN : WallReturn(r, ok))

FairGenSpec == GenSpec /\ GenFairness

----------------------------------------------------------------------------
(* The client: src/public/app.js 1-793                                       *)
(*                                                                           *)
(* state.objects maps a tile to the object on it.  Every function of the     *)
(* page runs to its next await without interruption: a function that awaits  *)
(* showPrompt() or a response is one action up to the await and one action   *)
(* from it.  The server is, for the client, a source of responses: what a    *)
(* response carries is an input of the step that receives it.                *)

\* tileKey(x, y) is `${x},${y}`: one key for each pair of coordinates
tileKey(x, y) == <<x, y>>

Tiles == {tileKey(x, y) : x \in 0..MaxX, y \in 0..MaxY}

ArrowKeys == {"ArrowUp", "ArrowDown", "ArrowLeft", "ArrowRight"}

directionFromKey(key) ==
  IF key = "ArrowUp" THEN [facing |-> "north", dx |-> 0, dy |-> -1]
  ELSE IF key = "ArrowDown" THEN [facing |-> "south", dx |-> 0, dy |-> 1]
  ELSE IF key = "ArrowLeft" THEN [facing |-> "west", dx |-> -1, dy |-> 0]
  ELSE [facing |-> "east", dx |-> 1, dy |-> 0]

\* the dirs table of aheadPos
dirs ==
  [north |-> <<0, -1>>, south |-> <<0, 1>>, east |-> <<1, 0>>,
   west |-> <<-1, 0>>]

aheadPos ==
  [x |-> player.x + dirs[player.facing][1],
   y |-> player.y + dirs[player.facing][2]]

\* const key = tileKey(x, y) of interact, deleteObjectAhead and placeWall
AheadKey == tileKey(aheadPos.x, aheadPos.y)

NoFetch == [kind |-> "none"]

\* fetch('/api/generate-object'), fetch('/api/edit-object')
CreateFetch == [kind |-> "generate-object"]

EditFetch == [kind |-> "edit-object"]

\* fetch('/api/uncache-object-orientation', { objectKey, orientation })
UncacheFetch(objectKey, orientation) ==
  [kind |-> "uncache", objectKey |-> objectKey, orientation |-> orientation]

\* an entry of state.objects.  A field that is missing is Undefined, except
\* objectKey, which is << >> when it is missing; imageUrl tells which
\* response or wall slot the image is from.
WorldObject(pending, pendingKind, opId, imageUrl, objectKey, orientation) ==
  [pending |-> pending, pendingKind |-> pendingKind, opId |-> opId,
   imageUrl |-> imageUrl, objectKey |-> objectKey,
   orientation |-> orientation]

\* the objectKey and orientation a create response of the server carries
ResponseKeys == ObjectKeys

ResponseOrientations == {"north", "south"}

\* what showPrompt() resolves to: null, or the value of the input
PromptResults ==
  {[cancelled |-> TRUE]}
    \cup {[cancelled |-> FALSE, val |-> v] : v \in {<< >>, <<" ">>, <<"a">>}}

NoModal == [open |-> FALSE]

\* Map.prototype.has, set and delete
has(map, key) == key \in DOMAIN map

MapSet(map, key, value) ==
  [k \in DOMAIN map \cup {key} |-> IF k = key THEN value ELSE map[k]]

MapDelete(map, key) == [k \in DOMAIN map \ {key} |-> map[k]]

\* a variant of countInstancesOfVariant that does not skip excludeTileKey
countInstancesOfVariantAll(objectKey, orientation, excludeTileKey) ==
  Cardinality({k \in DOMAIN objects :
                 /\ objects[k].objectKey = objectKey
                 /\ objects[k].orientation = orientation})

countInstancesOfVariant(objectKey, orientation, excludeTileKey) ==
  Cardinality({k \in DOMAIN objects \ {excludeTileKey} :
                 /\ objects[k].objectKey = objectKey
                 /\ objects[k].orientation = orientation})

\* a variant of the existing.pending tests that lets every object through
IsPendingNever(existing) == FALSE

\* if (existing.pending) of interact and deleteObjectAhead
IsPending(existing) == existing.pending

\* a variant of the move of the keydown handler that walks onto objects
BlockedNever(nx, ny) == FALSE

\* if (state.objects.has(tileKey(nx, ny))) return; of the keydown handler
Blocked(nx, ny) == has(objects, tileKey(nx, ny))

\* opIds are `${Date.now()}_${random}`: a new one differs from every opId
\* that is still held by a call or by an object.  The model names opIds
\* "1".."MaxOps" and takes the first that is not held.
FreeOpIds ==
  {i \in 1..MaxOps :
     /\ ~has(ops, ToString(i))
     /\ \A k \in DOMAIN objects : objects[k].opId # ToString(i)}

NewOpId == ToString(CHOOSE i \in FreeOpIds : \A j \in FreeOpIds : i <= j)

\* current && current.opId === opId
Mine(key, opId) == has(objects, key) /\ objects[key].opId = opId

\* the keydown handler, for an arrow key: the player turns, and moves unless
\* shift is held or the tile is occupied
KeyDownArrow(key, shiftKey) ==
  LET dir == directionFromKey(key)
      nx == player.x + dir.dx
      ny == player.y + dir.dy
  IN
  /\ ~modal.open
  /\ shiftKey \/ Blocked(nx, ny) \/ tileKey(nx, ny) \in Tiles
  /\ player' = IF shiftKey \/ Blocked(nx, ny)
               THEN [player EXCEPT !.facing = dir.facing]
               ELSE [x |-> nx, y |-> ny, facing |-> dir.facing]
  /\ fetched' = NoFetch
  /\ UNCHANGED <<objects, modal, ops>>
  /\ UNCHANGED serverVars

\* interact(), up to await showPrompt(): on a free tile the prompt of a
\* create opens, on a placed object the prompt of an edit; a pending object
\* is left alone
Interact ==
  LET key == AheadKey IN
  /\ ~modal.open
  /\ key \in Tiles
  /\ FreeOpIds # {}
  /\ modal' = IF ~has(objects, key)
              THEN [open |-> TRUE, kind |-> "create", key |-> key]
              ELSE IF IsPending(objects[key]) THEN modal
              ELSE [open |-> TRUE, kind |-> "edit", key |-> key,
                    existing |-> objects[key]]
  /\ fetched' = NoFetch
  /\ UNCHANGED <<objects, player, ops>>
  /\ UNCHANGED serverVars

\* generateWallTextureForSelectedSlot(), up to await showPrompt(); what
\* follows the prompt changes state.wallHotbar only, which PlaceWall takes
\* as its input
GenerateWallTextureForSelectedSlot ==
  /\ ~modal.open
  /\ modal' = [open |-> TRUE, kind |-> "texture"]
  /\ fetched' = NoFetch
  /\ UNCHANGED <<objects, player, ops>>
  /\ UNCHANGED serverVars

\* interact(), from await showPrompt() to await fetch(): the placeholder of
\* a create is set, or the object is marked as being edited
PromptResolved(result) ==
  /\ modal.open
  /\ modal' = NoModal
  /\ IF modal.kind = "create"
     THEN IF \/ result.cancelled
             \/ result.val = << >>
             \/ Trim(result.val) = << >>
          THEN /\ fetched' = NoFetch
               /\ UNCHANGED <<objects, ops>>
          ELSE /\ objects' = MapSet(objects, modal.key,
                                    WorldObject(TRUE, "create", NewOpId,
                                                Undefined, << >>, Undefined))
               /\ ops' = MapSet(ops, NewOpId,
                                [kind |-> "create", key |-> modal.key])
               /\ fetched' = CreateFetch
     ELSE IF modal.kind = "edit"
     THEN IF result.cancelled \/ result.val = << >>
          THEN /\ fetched' = NoFetch
               /\ UNCHANGED <<objects, ops>>
          ELSE /\ objects' = MapSet(objects, modal.key,
                                    [modal.existing EXCEPT
                                       !.pending = TRUE,
                                       !.pendingKind = "edit",
                                       !.opId = NewOpId])
               /\ ops' = MapSet(ops, NewOpId,
                                [kind |-> "edit", key |-> modal.key,
                                 existing |-> modal.existing,
                                 old |-> modal.existing])
               /\ fetched' = EditFetch
     ELSE /\ fetched' = NoFetch
          /\ UNCHANGED <<objects, ops>>
  /\ UNCHANGED player
  /\ UNCHANGED serverVars

\* the catch block of a create: the placeholder is removed
CreateFailed(key, opId) ==
  IF Mine(key, opId) THEN MapDelete(objects, key) ELSE objects

\* interact(), from the response of a create: the object is placed with the
\* objectKey and orientation of the response
CreateResponse(opId, ok, objectKey, orientation) ==
  /\ has(ops, opId)
  /\ ops[opId].kind = "create"
  /\ objects' = IF ~ok THEN CreateFailed(ops[opId].key, opId)
                ELSE IF ~Mine(ops[opId].key, opId) THEN objects
                ELSE MapSet(objects, ops[opId].key,
                            WorldObject(FALSE, "none", Undefined, "created",
                                        objectKey, orientation))
  /\ ops' = MapDelete(ops, opId)
  /\ fetched' = NoFetch
  /\ UNCHANGED <<player, modal>>
  /\ UNCHANGED serverVars

\* a variant of the catch block of an edit that removes the object
EditFailedDeletes(key, opId, old) ==
  IF Mine(key, opId) THEN MapDelete(objects, key) ELSE objects

\* the catch block of an edit: the object is put back
EditFailed(key, opId, old) ==
  IF Mine(key, opId) THEN MapSet(objects, key, old) ELSE objects

\* interact(), from the response of an edit: the object gets the image of
\* the response and keeps its objectKey and orientation (the response has
\* neither)
EditResponse(opId, ok) ==
  /\ has(ops, opId)
  /\ ops[opId].kind = "edit"
  /\ objects' =
       IF ~ok THEN EditFailed(ops[opId].key, opId, ops[opId].old)
       ELSE IF ~Mine(ops[opId].key, opId) THEN objects
       ELSE MapSet(objects, ops[opId].key,
                   WorldObject(FALSE, "none", Undefined, "edited",
                               ops[opId].existing.objectKey,
                               ops[opId].existing.orientation))
  /\ ops' = MapDelete(ops, opId)
  /\ fetched' = NoFetch
  /\ UNCHANGED <<player, modal>>
  /\ UNCHANGED serverVars

\* placeWall(); ready: the selected slot of the hotbar has a texture
PlaceWall(ready) ==
  LET key == AheadKey IN
  /\ ~modal.open
  /\ key \in Tiles
  /\ objects' = IF has(objects, key) \/ ~ready THEN objects
                ELSE MapSet(objects, key,
                            WorldObject(FALSE, "none", Undefined, "slot",
                                        << >>, Undefined))
  /\ fetched' = NoFetch
  /\ UNCHANGED <<player, modal, ops>>
  /\ UNCHANGED serverVars

\* deleteObjectAhead() up to its fetch; what follows the fetch sets the
\* status line only
DeleteObjectAhead ==
  LET key == AheadKey IN
  /\ ~modal.open
  /\ key \in Tiles
  /\ IF ~has(objects, key)
     THEN /\ fetched' = NoFetch
          /\ UNCHANGED objects
     ELSE IF IsPending(objects[key])
     THEN /\ fetched' = NoFetch
          /\ UNCHANGED objects
     ELSE
       LET existing == objects[key]
           shouldUncache ==
             /\ existing.objectKey # << >>
             /\ existing.orientation # Undefined
             /\ countInstancesOfVariant(existing.objectKey,
                                        existing.orientation, key) = 0
       IN
       /\ objects' = MapDelete(objects, key)
       /\ fetched' = IF shouldUncache
                     THEN UncacheFetch(existing.objectKey, existing.orientation)
                     ELSE NoFetch
  /\ UNCHANGED <<player, modal, ops>>
  /\ UNCHANGED serverVars

ClientInit ==
  /\ booted = FALSE
  /\ objectImageCache = EmptyTable
  /\ objectPrototype = << >>
  /\ cacheFile = MissingFile
  /\ files = {}
  /\ writable = TRUE
  /\ apiKey = TRUE
  /\ nextFile = 0
  /\ pc = [r \in Reqs |-> "idle"]
  /\ req = [r \in Reqs |-> NoReq]
  /\ sent = NoneSent
  /\ served = {}
  /\ PageLoaded

ClientNext ==
  \/ \E key \in ArrowKeys, shiftKey \in BOOLEAN : KeyDownArrow(key, shiftKey)
  \/ Interact
  \/ GenerateWallTextureForSelectedSlot
  \/ \E result \in PromptResults : PromptResolved(result)
  \/ \E opId \in DOMAIN ops, ok \in BOOLEAN, k \in ResponseKeys,
        f \in ResponseOrientations : CreateResponse(opId, ok, k, f)
  \/ \E opId \in DOMAIN ops, ok \in BOOLEAN : EditResponse(opId, ok)
  \/ \E ready \in BOOLEAN : PlaceWall(ready)
  \/ DeleteObjectAhead

ClientSpec == ClientInit /\ [][ClientNext]_vars

----------------------------------------------------------------------------
(* Vocabulary of the properties *)

\* the VariantTable has an entry for the pair
Entry(k, f) ==
  /\ k \in DOMAIN objectImageCache
  /\ f \in DOMAIN objectImageCache[k]

\* the pair has a live variant: an entry of the table whose image file is on
\* disk
Live(k, f) ==
  /\ Entry(k, f)
  /\ objectImageCache[k][f].imageUrl \in files

\* the identities other than "__proto__"
PlainKeys == ObjectKeys \ {ProtoKey}

\* lookup(k, f) hits
Hit(k, f) == getCachedVariant(k, f).hit

\* what the server holds for the pair, with or without its file
Stored(k, f) ==
  IF ObjectOf(k).ref = "undefined" THEN [found |-> FALSE]
  ELSE Prop(ObjectOf(k), f)

\* the entry the table has for the pair, and the property Object.prototype
\* has for the orientation
OwnAt(k, f) ==
  IF Entry(k, f)
  THEN [found |-> TRUE, variant |-> objectImageCache[k][f]]
  ELSE [found |-> FALSE]

ProtoAt(f) ==
  IF f \in DOMAIN objectPrototype
  THEN [found |-> TRUE, variant |-> objectPrototype[f]]
  ELSE [found |-> FALSE]

\* request r's handler resumes after a generator call that succeeded: its
\* output file appears on disk in this step
GeneratedBy(r) ==
  /\ pc[r] # "idle"
  /\ pc'[r] = "idle"
  /\ req[r].out \in files'

\* request r's handler resumes after a generator call that failed
FailedFor(r) ==
  /\ pc[r] # "idle"
  /\ pc'[r] = "idle"
  /\ req[r].out \notin files'

SentCreateOk ==
  /\ sent.kind = "create"
  /\ sent.status = 200

\* a valid create-object request for the pair (k, f) is taken in on
\* connection r in this step: its handler suspends on a generator call or
\* answers at once
CreateTakenIn(r, k, f) ==
  /\ FreeSlot(r)
  /\ \/ /\ pc'[r] # "idle"
        /\ req'[r].objectKey = k
        /\ req'[r].objectFacing = f
     \/ /\ pc' = pc
        /\ sent'.kind = "create"
        /\ sent'.path # "invalid"
        /\ sent' # sent \/ nextFile' # nextFile
        /\ sent'.reqKey = k
        /\ sent'.reqFacing = f

\* the path a request that has just been taken in is on: its await, or the
\* path its immediate response names
PathStarted(r) == IF pc[r] # "idle" THEN req[r].path ELSE sent.path

\* the path the lookups call for
ExpectedPath(k, f) ==
  IF Hit(k, f) THEN "exact"
  ELSE IF \E o \in Orientations : Hit(k, o) THEN "reorient"
  ELSE "cold"

\* south, east, west, north
Rank(f) ==
  CASE f = "south" -> 1 [] f = "east" -> 2 [] f = "west" -> 3
    [] f = "north" -> 4

\* an uncache request for the pair (k, f) is answered removed=true in this
\* step
RemovedNow(k, f) ==
  /\ pc' = pc
  /\ sent'.kind = "uncache"
  /\ sent'.path = "remove"
  /\ sent'.status = 200
  /\ sent'.removed = TRUE
  /\ sent'.reqKey = k
  /\ sent'.reqFacing = f
  /\ sent' # sent \/ objectImageCache' # objectImageCache
       \/ objectPrototype' # objectPrototype

----------------------------------------------------------------------------
(* Properties *)

\* C1: an insert for a pair replaces whatever the pair had, so that a lookup
\* right after the insert of a generated image returns exactly that image;
\* the pair holds one variant, the inserted one.
C1_InsertThenLookup ==
  [][\A r \in Reqs, k \in ObjectKeys, f \in Orientations :
       (GeneratedBy(r) /\ k = req[r].objectKey /\ f = req[r].objectFacing)
         => /\ getCachedVariant(k, f)' =
                 [hit |-> TRUE, imageUrl |-> req[r].out]
            /\ Stored(k, f)' = [found |-> TRUE, variant |-> Variant(req[r].out)]
    ]_vars

\* C1 witness: the second generated image has been inserted for a pair and a
\* lookup of the pair returns it, the first generated image still on disk
C1_Witness ==
  /\ SentCreateOk
  /\ sent.cached = FALSE
  /\ sent.imageUrl = 2
  /\ 1 \in files
  /\ getCachedVariant(sent.objectKey, sent.orientation) =
       [hit |-> TRUE, imageUrl |-> 2]

\* C2: every valid create-object request takes exactly one of the three
\* paths, decided by the lookups when it is handled: exact hit when the
\* lookup of the requested pair hits, else reorient when the lookup of some
\* orientation of the identity hits, else cold; and the path a request
\* finishes on is the one it started on.
C2_ExactlyOnePath ==
  [][/\ \A r \in Reqs, k \in ObjectKeys, f \in Orientations :
          CreateTakenIn(r, k, f) => PathStarted(r)' = ExpectedPath(k, f)
     /\ \A r \in Reqs :
          /\ pc'[r] = "awaitReorient" => req'[r].path = "reorient"
          /\ pc'[r] = "awaitCold" => req'[r].path = "cold"
          /\ (pc[r] # "idle" /\ pc'[r] = "idle")
               => (sent'.kind = "create" /\ sent'.path = req[r].path)
    ]_vars

\* C2 witness: an exact hit has been answered, and one request waits on the
\* reorient path while another waits on the cold path
C2_Witness ==
  /\ sent.kind = "create"
  /\ sent.path = "exact"
  /\ \E r \in Reqs : pc[r] = "awaitReorient"
  /\ \E r \in Reqs : pc[r] = "awaitCold"

\* C3: an exact hit answers with the location the lookup returned and
\* cached=true, starts no generator call and leaves the table and its
\* snapshot unchanged; a create for a pair that a create has answered
\* successfully, with no uncache and no file deletion since, is an exact hit.
C3_ExactHit ==
  /\ [](\A p \in served : Hit(p[1], p[2]))
  /\ [][\A r \in Reqs, k \in ObjectKeys, f \in Orientations :
          (CreateTakenIn(r, k, f) /\ (Hit(k, f) \/ <<k, f>> \in served))
            => /\ sent'.path = "exact"
               /\ sent'.status = 200
               /\ sent'.cached = TRUE
               /\ sent'.imageUrl = getCachedVariant(k, f).imageUrl
               /\ sent'.objectKey = k
               /\ sent'.orientation = f
               /\ sent'.genCalls = 0
               /\ UNCHANGED <<objectImageCache, objectPrototype, cacheFile,
                              files, nextFile, pc, req>>
       ]_vars

\* C3 witness: a create is answered from the cache with an image that an
\* earlier create generated
C3_Witness ==
  /\ SentCreateOk
  /\ sent.path = "exact"
  /\ sent.cached = TRUE
  /\ sent.imageUrl \in 1..MaxFiles
  /\ <<sent.objectKey, sent.orientation>> \in served

\* C4: the reorient call edits the image of the variant lookupAny found,
\* whose orientation differs from the requested one; on success the new
\* variant is inserted under the requested orientation, the source variant
\* is left as it was, and the response has cached=false and reorientedFrom
\* equal to the source orientation.
C4_Reorient ==
  [][/\ \A r \in Reqs, k \in ObjectKeys, f \in Orientations :
          (pc[r] = "idle" /\ pc'[r] = "awaitReorient"
             /\ k = req'[r].objectKey /\ f = req'[r].objectFacing)
            => \E o \in Orientations :
                 /\ o # f
                 /\ Hit(k, o)
                 /\ o = anyCachedVariant(k).facing
                 /\ req'[r].existingAny.facing = o
                 /\ req'[r].editAbs = getCachedVariant(k, o).imageUrl
     /\ \A r \in Reqs, k \in ObjectKeys, f \in Orientations,
           o \in Orientations :
          (pc[r] = "awaitReorient" /\ GeneratedBy(r)
             /\ k = req[r].objectKey /\ f = req[r].objectFacing
             /\ o = req[r].existingAny.facing)
            => /\ o # f
               /\ Stored(k, f)' =
                    [found |-> TRUE, variant |-> Variant(req[r].out)]
               /\ OwnAt(k, o)' = OwnAt(k, o)
               /\ ProtoAt(o)' = ProtoAt(o)
               /\ writable =>
                    /\ sent'.status = 200
                    /\ sent'.path = "reorient"
                    /\ sent'.imageUrl = req[r].out
                    /\ sent'.cached = FALSE
                    /\ sent'.objectKey = k
                    /\ sent'.orientation = f
                    /\ sent'.reorientedFrom = o
    ]_vars

\* C4 witness: a reorient has been answered, a lookup of the requested pair
\* returns its image and the source variant is still live
C4_Witness ==
  /\ SentCreateOk
  /\ sent.path = "reorient"
  /\ getCachedVariant(sent.objectKey, sent.orientation) =
       [hit |-> TRUE, imageUrl |-> sent.imageUrl]
  /\ Hit(sent.objectKey, sent.reorientedFrom)

\* C5 as claimed: no live variant of any orientation of the identity exists
\* when the cold call is issued, nor when its result is inserted.
C5_ColdIsFirstEver ==
  [][/\ \A r \in Reqs, k \in ObjectKeys :
          (pc[r] = "idle" /\ pc'[r] = "awaitCold" /\ k = req'[r].objectKey)
            => \A o \in Orientations : ~Hit(k, o) /\ ~Live(k, o)
     /\ \A r \in Reqs, k \in ObjectKeys :
          (pc[r] = "awaitCold" /\ GeneratedBy(r) /\ k = req[r].objectKey)
            => \A o \in Orientations : ~Hit(k, o) /\ ~Live(k, o)
    ]_vars

\* C5 amended: no live variant of any orientation of the identity exists
\* when the cold call is issued; by the time its result is inserted an
\* overlapping request may have inserted one.
C5_ColdIssuedWhenNoneLive ==
  [][\A r \in Reqs, k \in ObjectKeys, f \in Orientations :
       (CreateTakenIn(r, k, f) /\ PathStarted(r)' = "cold")
         => \A o \in Orientations : ~Hit(k, o) /\ ~Live(k, o)
    ]_vars

\* C5 witness: a cold call is in flight for an identity of which another
\* request has meanwhile inserted a live variant
C5_Witness ==
  \E r \in Reqs :
    /\ pc[r] = "awaitCold"
    /\ \E o \in Orientations : Hit(req[r].objectKey, o)

\* C6: a successful cold generation inserts the new variant under the
\* requested pair and answers cached=false without reorientedFrom; the first
\* create of a prompt the server has never seen, sent while the player faces
\* south, is a cold generation for orientation north.
C6_ColdGeneration ==
  [][/\ \A r \in Reqs, b \in CreateBodies :
          (pc[r] = "idle" /\ pc'[r] # "idle"
             /\ b.playerFacing = "south"
             /\ \A o \in Orientations :
                  ~Stored(ObjectKeyOf[b.prompt], o).found
             /\ GenerateObjectStart(r, b.name, b.prompt, b.playerFacing))
            => /\ pc'[r] = "awaitCold"
               /\ req'[r].objectFacing = "north"
               /\ req'[r].editAbs = 0
     /\ \A r \in Reqs, k \in ObjectKeys, f \in Orientations :
          (pc[r] = "awaitCold" /\ GeneratedBy(r)
             /\ k = req[r].objectKey /\ f = req[r].objectFacing)
            => /\ Stored(k, f)' =
                    [found |-> TRUE, variant |-> Variant(req[r].out)]
               /\ getCachedVariant(k, f)' =
                    [hit |-> TRUE, imageUrl |-> req[r].out]
               /\ writable =>
                    /\ sent'.status = 200
                    /\ sent'.path = "cold"
                    /\ sent'.imageUrl = req[r].out
                    /\ sent'.cached = FALSE
                    /\ sent'.objectKey = k
                    /\ sent'.orientation = f
                    /\ "reorientedFrom" \notin DOMAIN sent'
    ]_vars

\* C6 witness: a cold generation for orientation north has been answered
\* and a lookup of the pair returns its image
C6_Witness ==
  /\ SentCreateOk
  /\ sent.path = "cold"
  /\ sent.orientation = "north"
  /\ getCachedVariant(sent.objectKey, "north") =
       [hit |-> TRUE, imageUrl |-> sent.imageUrl]

\* C7: when the generator call of a reorient or cold request fails, the
\* request is answered 500, the table, the snapshot and the files are left
\* as they were, the handler ends without naming another output file, and no
\* request ever makes more than one generator call.
C7_GeneratorFailure ==
  /\ [](/\ \A r \in Reqs : pc[r] # "idle" => req[r].genCalls = 1
        /\ sent.kind # "none" => sent.genCalls <= 1)
  /\ [][\A r \in Reqs :
          FailedFor(r)
            => /\ sent'.kind = "create"
               /\ sent'.status = 500
               /\ sent'.path = req[r].path
               /\ sent'.genCalls = 1
               /\ req'[r] = NoReq
               /\ \A q \in Reqs \ {r} : pc'[q] = pc[q] /\ req'[q] = req[q]
               /\ UNCHANGED <<objectImageCache, objectPrototype, cacheFile,
                              files, nextFile>>
       ]_vars

\* C7 witness: on writable storage a create that made its generator call
\* has been answered 500, so the call failed
C7_Witness ==
  /\ writable
  /\ sent.kind = "create"
  /\ sent.status = 500
  /\ sent.genCalls = 1

\* C8 as claimed, for the identities other than "__proto__": a lookup hits
\* exactly when the table has an entry for the pair whose image file is on
\* disk, and then returns that entry's location; a create for a pair whose
\* entry has lost its file is not answered from the cache.
C8_HitIffEntryAndFile ==
  /\ [](\A k \in PlainKeys, f \in Orientations :
          getCachedVariant(k, f) =
            IF Live(k, f)
            THEN [hit |-> TRUE,
                  imageUrl |-> objectImageCache[k][f].imageUrl]
            ELSE Miss)
  /\ [][\A r \in Reqs, k \in PlainKeys, f \in Orientations :
          (CreateTakenIn(r, k, f) /\ Entry(k, f) /\ ~Live(k, f))
            => PathStarted(r)' \in {"reorient", "cold"}
       ]_vars

\* C8, what holds: a lookup never hits a variant whose file is gone, and a
\* create for a pair whose stored variant has lost its file names a new
\* output file and, with the API key set, waits on a generator call.
C8_StaleIsMiss ==
  /\ [](\A k \in ObjectKeys, f \in Orientations :
          /\ Hit(k, f) =>
               /\ Stored(k, f).found
               /\ Stored(k, f).variant.imageUrl \in files
               /\ getCachedVariant(k, f).imageUrl
                    = Stored(k, f).variant.imageUrl
          /\ Live(k, f) => Hit(k, f))
  /\ [][\A r \in Reqs, k \in ObjectKeys, f \in Orientations :
          (CreateTakenIn(r, k, f) /\ Stored(k, f).found /\ ~Hit(k, f))
            => /\ PathStarted(r)' \in {"reorient", "cold"}
               /\ nextFile' = nextFile + 1
               /\ IF apiKey
                  THEN pc'[r] # "idle" /\ sent' = sent
                  ELSE sent'.status = 500
       ]_vars

\* C8 witness: a lookup hits for a pair the table has no entry for, under an
\* identity the table holds
C8_Witness ==
  \E k \in PlainKeys, f \in Orientations :
    /\ k \in DOMAIN objectImageCache
    /\ ~Entry(k, f)
    /\ Hit(k, f)

\* C9 as claimed, for the identities other than "__proto__": lookupAny
\* returns the first orientation, in the order south, east, west, north,
\* that has an entry of the table with its file on disk, with that entry's
\* location, and misses only when the identity has no live variant.
C9_LookupAnyOrder ==
  \A k \in PlainKeys :
    LET any == anyCachedVariant(k) IN
    IF \E f \in Orientations : Live(k, f)
    THEN /\ any.hit
         /\ Live(k, any.facing)
         /\ any.imageUrl = objectImageCache[k][any.facing].imageUrl
         /\ \A g \in Orientations : Rank(g) < Rank(any.facing) => ~Live(k, g)
    ELSE any = Miss

\* C9, what holds: lookupAny returns the first orientation, in the order
\* south, east, west, north, whose lookup hits, with the location that
\* lookup returns, and misses only when no lookup of the identity hits.
C9_FirstHitInOrder ==
  \A k \in ObjectKeys :
    LET any == anyCachedVariant(k) IN
    IF \E f \in Orientations : Hit(k, f)
    THEN /\ any.hit
         /\ Hit(k, any.facing)
         /\ any.imageUrl = getCachedVariant(k, any.facing).imageUrl
         /\ \A g \in Orientations : Rank(g) < Rank(any.facing) => ~Hit(k, g)
    ELSE any = Miss

\* C9 witness: lookupAny returns an orientation the identity has no entry
\* for, while a later orientation of the identity is live
C9_Witness ==
  \E k \in PlainKeys :
    /\ anyCachedVariant(k).hit
    /\ ~Entry(k, anyCachedVariant(k).facing)
    /\ \E g \in Orientations :
         Live(k, g) /\ Rank(anyCachedVariant(k).facing) < Rank(g)

\* C10 as claimed, for the identities other than "__proto__": after
\* remove(identity, orientation) has returned true, a lookup of the pair
\* misses, and a repeated remove returns false and changes nothing.
C10_RemoveThenLookup ==
  [][\A k \in PlainKeys, f \in Orientations :
       RemovedNow(k, f)
         => /\ getCachedVariant(k, f)' = Miss
            /\ removeVariant(k, f)'.removed = FALSE
            /\ removeVariant(k, f)'.cache = objectImageCache'
            /\ removeVariant(k, f)'.proto = objectPrototype'
    ]_vars

\* C10, what holds: after remove has returned true the table has no entry
\* for the pair.
C10_EntryGone ==
  [][\A k \in ObjectKeys, f \in Orientations :
       RemovedNow(k, f) => ~Entry(k, f)'
    ]_vars

\* C10 witness: an uncache has been answered removed=true and a lookup of
\* the pair still hits
C10_Witness ==
  /\ sent.kind = "uncache"
  /\ sent.status = 200
  /\ sent.removed = TRUE
  /\ sent.reqKey \in PlainKeys
  /\ Hit(sent.reqKey, sent.reqFacing)

\* C11: no identity of the table maps to an empty orientation map: an
\* insert creates the map with its first variant, and the remove of an
\* identity's last orientation drops the identity.
C11_NoEmptyMap ==
  \A k \in DOMAIN objectImageCache : DOMAIN objectImageCache[k] # {}

\* C11 witness: an uncache has removed the last orientation of an identity,
\* and the table no longer has the identity
C11_Witness ==
  /\ sent.kind = "uncache"
  /\ sent.status = 200
  /\ sent.removed = TRUE
  /\ sent.reqKey \in PlainKeys
  /\ sent.reqKey \notin DOMAIN objectImageCache
  /\ objectPrototype = << >>

\* what the snapshot file holds for the pair
Persisted(k, f) ==
  IF /\ cacheFile.kind = "json"
     /\ k \in DOMAIN cacheFile.value
     /\ f \in DOMAIN cacheFile.value[k]
  THEN [found |-> TRUE, variant |-> cacheFile.value[k][f]]
  ELSE [found |-> FALSE]

\* an insert returns normally in this step (the create that made it is
\* answered 200), or a remove returns true (its uncache is answered
\* removed=true)
MutationReturned ==
  \/ \E r \in Reqs : GeneratedBy(r) /\ sent'.status = 200
  \/ /\ pc' = pc
     /\ sent'.kind = "uncache"
     /\ sent'.path = "remove"
     /\ sent'.status = 200
     /\ sent'.removed = TRUE
     /\ sent' # sent \/ objectImageCache' # objectImageCache
          \/ objectPrototype' # objectPrototype

\* the snapshot write of an insert or of a remove throws in this step
SaveFailed ==
  /\ ~writable
  /\ \/ \E r \in Reqs : GeneratedBy(r)
     \/ /\ pc' = pc
        /\ sent'.kind = "uncache"
        /\ sent'.path = "remove"
        /\ sent'.status = 500
        /\ sent' # sent \/ objectImageCache' # objectImageCache
             \/ objectPrototype' # objectPrototype

\* C12 as claimed: when an insert or a remove that returns true returns
\* normally, the snapshot holds exactly what the server holds in memory for
\* every pair, so a restart loses nothing a lookup could see.
C12_SnapshotEqualsMemory ==
  [][MutationReturned
       => \A k \in ObjectKeys, f \in Orientations :
            Persisted(k, f)' = Stored(k, f)'
    ]_vars

\* C12, what holds: the snapshot is the own content of the table object: on
\* writable storage, once a mutation has been saved, and before that when
\* the file was loaded, the snapshot equals objectImageCache.
C12_SnapshotEqualsOwnTable ==
  /\ [][MutationReturned => cacheFile' = JsonFile(objectImageCache')]_vars
  /\ []((booted /\ writable)
          => \/ cacheFile = JsonFile(objectImageCache)
             \/ /\ cacheFile \in {MissingFile, CorruptFile}
                /\ objectImageCache = EmptyTable)

\* C12 witness: a create of the prompt "__proto__" has been answered 200,
\* a lookup returns its variant, and the snapshot written by that insert does
\* not hold it
C12_Witness ==
  /\ SentCreateOk
  /\ sent.cached = FALSE
  /\ sent.objectKey = ProtoKey
  /\ getCachedVariant(ProtoKey, sent.orientation) =
       [hit |-> TRUE, imageUrl |-> sent.imageUrl]
  /\ cacheFile = JsonFile(objectImageCache)
  /\ ~Persisted(ProtoKey, sent.orientation).found

\* C13 as claimed: when the snapshot write of an insert or a remove fails,
\* the caller gets an error and the server holds in memory what it held
\* before the call, so no lookup sees a mutation that was not persisted.
C13_NoDivergence ==
  [][SaveFailed
       => /\ sent'.status = 500
          /\ objectImageCache' = objectImageCache
          /\ objectPrototype' = objectPrototype
    ]_vars

\* C13, what holds: when the snapshot write of an insert or a remove fails,
\* the request is answered 500 and the snapshot file is left as it was.
C13_ErrorSurfaces ==
  [][SaveFailed => (sent'.status = 500 /\ cacheFile' = cacheFile)]_vars

\* C13 witness: on unwritable storage a create has been answered 500 after
\* its generator call succeeded, and a lookup of its pair returns the
\* generated image, which the snapshot does not hold
C13_Witness ==
  /\ ~writable
  /\ sent.kind = "create"
  /\ sent.status = 500
  /\ sent.genCalls = 1
  /\ Hit(sent.reqKey, sent.reqFacing)
  /\ getCachedVariant(sent.reqKey, sent.reqFacing).imageUrl \in 1..MaxFiles
  /\ ~Persisted(sent.reqKey, sent.reqFacing).found

\* C14: at startup loadCache sets the table to the snapshot when the file
\* is there and parses, and to the empty table when the file is missing or
\* does not parse; whatever the file is, startup goes through and leaves the
\* file as it was.
C14_LoadCache ==
  /\ [](~booted => ENABLED LoadCache)
  /\ [][(~booted /\ booted')
          => /\ objectImageCache' =
                  IF cacheFile.kind = "json" THEN cacheFile.value
                  ELSE EmptyTable
             /\ cacheFile' = cacheFile
       ]_vars

\* C14 witness: the server has started on a snapshot file that does not
\* parse, with an empty table
C14_Witness ==
  /\ booted
  /\ cacheFile = CorruptFile
  /\ objectImageCache = EmptyTable
  /\ sent = NoneSent

\* north<->south, east<->west; a missing or unrecognised facing counts as
\* south
Opposite(facing) ==
  CASE facing = "north" -> "south"
    [] facing = "east" -> "west"
    [] facing = "west" -> "east"
    [] OTHER -> "north"

\* C15: on all three paths of create-object the orientation the cache is
\* consulted with, the one the variant is inserted under and the one the
\* response returns is the opposite of playerFacing, a missing or
\* unrecognised playerFacing counting as south.
C15_OrientationIsOpposite ==
  [][/\ \A r \in Reqs :
          (/\ FreeSlot(r)
           /\ \/ pc'[r] # "idle"
              \/ /\ pc' = pc
                 /\ sent'.kind = "create"
                 /\ sent'.path # "invalid"
                 /\ sent' # sent \/ nextFile' # nextFile)
            => \A b \in CreateBodies :
                 (/\ b.name # "" /\ b.prompt # << >>
                  /\ ObjectKeyOf[b.prompt] =
                       (IF pc'[r] # "idle" THEN req'[r].objectKey
                        ELSE sent'.reqKey)
                  /\ GenerateObjectStart(r, b.name, b.prompt, b.playerFacing))
                   => IF pc'[r] # "idle"
                      THEN req'[r].objectFacing = Opposite(b.playerFacing)
                      ELSE /\ sent'.reqFacing = Opposite(b.playerFacing)
                           /\ sent'.status = 200
                                => sent'.orientation = Opposite(b.playerFacing)
     /\ \A r \in Reqs, k \in ObjectKeys, f \in Orientations, u \in 1..MaxFiles :
          (/\ GeneratedBy(r)
           /\ sent'.status = 200
           /\ req[r].objectKey = k
           /\ req[r].objectFacing = f
           /\ req[r].out = u)
            => /\ sent'.orientation = f
               /\ Stored(k, f)' = [found |-> TRUE, variant |-> Variant(u)]
    ]_vars

\* C15 witness: a reorient for orientation east has been answered while a
\* cold request for orientation north is waiting
C15_Witness ==
  /\ SentCreateOk
  /\ sent.path = "reorient"
  /\ sent.orientation = "east"
  /\ \E r \in Reqs : pc[r] = "awaitCold" /\ req[r].objectFacing = "north"

\* C16: oppositeFacing is an involution without fixed points on the four
\* orientations, and so on the orientation of every request in flight.
C16_OppositeInvolution ==
  /\ \A f \in Orientations :
       /\ oppositeFacing(f) \in Orientations
       /\ oppositeFacing(oppositeFacing(f)) = f
       /\ oppositeFacing(f) # f
  /\ \A r \in Reqs :
       pc[r] # "idle" =>
         /\ oppositeFacing(oppositeFacing(req[r].objectFacing))
              = req[r].objectFacing
         /\ oppositeFacing(req[r].objectFacing) # req[r].objectFacing

\* C16 witness: two requests in flight whose orientations are each other's
\* opposite
C16_Witness ==
  \E r, q \in Reqs :
    /\ pc[r] # "idle"
    /\ pc[q] # "idle"
    /\ req[q].objectFacing = oppositeFacing(req[r].objectFacing)
    /\ req[r].objectFacing = oppositeFacing(req[q].objectFacing)

\* the words of a text: its maximal runs of non-space characters, in lower
\* case
RECURSIVE WordsFrom(_, _)
WordsFrom(s, word) ==
  IF s = << >> THEN (IF word = << >> THEN << >> ELSE <<word>>)
  ELSE IF Head(s) \in {" ", "\t"}
  THEN (IF word = << >> THEN << >> ELSE <<word>>) \o WordsFrom(Tail(s), << >>)
  ELSE WordsFrom(Tail(s),
                 Append(word, CASE Head(s) = "A" -> "a"
                                [] Head(s) = "B" -> "b"
                                [] OTHER -> Head(s)))

\* two prompts differ only in letter case, in leading or trailing
\* whitespace or in the amount of whitespace between words
SameWords(p, q) == WordsFrom(p, << >>) = WordsFrom(q, << >>)

\* the prompts that differ from the text only in case and whitespace
SameWordsAs == [p \in PromptInputs |-> {q \in PromptInputs : SameWords(p, q)}]

\* C17: prompts that differ only in letter case and whitespace get the same
\* object key, and different words get different keys; so a create whose
\* pair a create with such a prompt has been answered 200 for, with no
\* uncache and no file deletion since, is answered from the cache with the
\* stored variant.
C17_SameIdentity ==
  /\ [](\A p, q \in PromptInputs :
          q \in SameWordsAs[p] <=> ObjectKeyOf[p] = ObjectKeyOf[q])
  /\ [][\A r \in Reqs, p \in PromptInputs \ {<< >>}, f \in Orientations :
          (/\ served # {}
           /\ CreateTakenIn(r, ObjectKeyOf[p], f)
           /\ \E q \in SameWordsAs[p] : <<ObjectKeyOf[q], f>> \in served)
            => /\ pc' = pc
               /\ sent'.path = "exact"
               /\ sent'.status = 200
               /\ sent'.cached = TRUE
               /\ \E q \in SameWordsAs[p] :
                    sent'.imageUrl = Stored(ObjectKeyOf[q], f).variant.imageUrl
       ]_vars

\* C17 witness: a create has been answered from the cache for the key that
\* the prompts "a b" and " A<tab> B " share, with a generated image
C17_Witness ==
  /\ SentCreateOk
  /\ sent.path = "exact"
  /\ sent.objectKey = normalizeObjectKey(<<" ", "A", "\t", " ", "B", " ">>)
  /\ sent.objectKey = <<"a", " ", "b">>
  /\ sent.imageUrl \in 1..MaxFiles
  /\ <<sent.objectKey, sent.orientation>> \in served

\* the last response sent is the removed=true answer to an uncache of the
\* pair (k, f): no request has been answered since
LastRemoved(k, f) ==
  /\ sent.kind = "uncache"
  /\ sent.path = "remove"
  /\ sent.status = 200
  /\ sent.removed = TRUE
  /\ sent.reqKey = k
  /\ sent.reqFacing = f

\* C18, as stated, for the identities other than "__proto__": once an uncache
\* of the pair (k, f) has been answered removed=true, the next create for
\* (k, f) is not answered from the cache, and it starts a cold generation
\* when no other orientation of k is live.
C18_NextIsNotHit ==
  [][\A r \in Reqs, k \in PlainKeys, f \in Orientations :
       (LastRemoved(k, f) /\ CreateTakenIn(r, k, f))
         => /\ sent'.path # "exact"
            /\ (\A o \in Orientations \ {f} : ~Hit(k, o))
                 => IF pc'[r] # "idle" THEN req'[r].path = "cold"
                    ELSE sent'.path = "cold"
    ]_vars

\* C18, what holds: once an uncache of the pair (k, f) has been answered
\* removed=true, the table has no entry of its own for the pair, and the
\* next create for (k, f) takes the path the lookups give: the cache when
\* the orientation is still found through Object.prototype, a reorient when
\* another orientation of k is live, a cold generation otherwise.
C18_NextFollowsLookup ==
  /\ [](\A k \in ObjectKeys, f \in Orientations :
          LastRemoved(k, f) => ~Entry(k, f))
  /\ [][\A r \in Reqs, k \in ObjectKeys, f \in Orientations :
          (LastRemoved(k, f) /\ CreateTakenIn(r, k, f))
            => /\ PathStarted(r)' = ExpectedPath(k, f)
               /\ Hit(k, f) => ProtoAt(f).found
               /\ (~Hit(k, f) /\ \A o \in Orientations : ~Hit(k, o))
                    => PathStarted(r)' = "cold"
       ]_vars

\* C18 witness: a create for the pair whose removal was the last response
\* is waiting for its cold generation
C18_Witness ==
  \E r \in Reqs :
    /\ pc[r] = "awaitCold"
    /\ req[r].objectKey \in PlainKeys
    /\ LastRemoved(req[r].objectKey, req[r].objectFacing)

\* requests r and q are both waiting for a cold generation for the pair
\* (k, f)
BothCold(r, q, k, f) ==
  /\ r # q
  /\ pc[r] = "awaitCold"
  /\ pc[q] = "awaitCold"
  /\ req[r].objectKey = k
  /\ req[q].objectKey = k
  /\ req[r].objectFacing = f
  /\ req[q].objectFacing = f

\* C19: two creates for the same pair that both started a cold generation
\* each have a generator call of their own, with an output file of their
\* own; when the generation of one succeeds while the other is still
\* waiting, that one inserts and the other goes on waiting; and whenever a
\* generation for the pair succeeds, whatever the table held for the pair
\* before, the table then holds for the pair the image of that generation:
\* the one that completes last is the one that stays.
C19_LastWriteWins ==
  /\ [](\A r, q \in Reqs, k \in ObjectKeys, f \in Orientations :
          BothCold(r, q, k, f)
            => /\ req[r].out # req[q].out
               /\ req[r].genCalls = 1
               /\ req[q].genCalls = 1
               /\ req[r].out \notin files
               /\ req[q].out \notin files)
  /\ [][\A r, q \in Reqs, k \in ObjectKeys, f \in Orientations,
          u \in 1..MaxFiles :
          (BothCold(r, q, k, f) /\ GeneratedBy(r) /\ req[r].out = u)
            => /\ Stored(k, f)' = [found |-> TRUE, variant |-> Variant(u)]
               /\ pc'[q] = "awaitCold"
               /\ req'[q] = req[q]
       ]_vars
  /\ [][\A q \in Reqs, k \in ObjectKeys, f \in Orientations,
          u \in 1..MaxFiles :
          (/\ pc[q] = "awaitCold"
           /\ req[q].objectKey = k
           /\ req[q].objectFacing = f
           /\ req[q].out = u
           /\ Stored(k, f).found
           /\ GeneratedBy(q))
            => /\ Stored(k, f).variant.imageUrl # u
               /\ Stored(k, f)' = [found |-> TRUE, variant |-> Variant(u)]
       ]_vars

\* C19 witness: of two creates that started a cold generation for the same
\* pair, one has inserted its image and been answered, and the other is
\* still waiting for its own generator call, which writes another file
C19_Witness ==
  /\ SentCreateOk
  /\ sent.path = "cold"
  /\ sent.genCalls = 1
  /\ sent.reqKey \in PlainKeys
  /\ Stored(sent.reqKey, sent.reqFacing) =
       [found |-> TRUE, variant |-> Variant(sent.imageUrl)]
  /\ \E q \in Reqs :
       /\ pc[q] = "awaitCold"
       /\ req[q].objectKey = sent.reqKey
       /\ req[q].objectFacing = sent.reqFacing
       /\ req[q].genCalls = 1
       /\ req[q].out # sent.imageUrl

\* C20: while the generator call of a request r is in flight (and a
\* connection is free), every uncache request, every create that is an exact
\* hit or fails validation, and every other create for which an output file
\* name is left, is taken in at once; the generator call of another request
\* can settle before that of r; and a step that answers an uncache or an
\* exact-hit create answers it in that very step and leaves every request in
\* flight as it was.
C20_NoBlocking ==
  /\ [](\A r \in Reqs :
          (pc[r] # "idle" /\ \E q \in Reqs : pc[q] = "idle")
            => /\ \A b \in UncacheBodies :
                    \E q \in Reqs : ENABLED Uncache(q, b.objectKey, b.orientation)
               /\ \A b \in CreateBodies :
                    (\/ b.name = ""
                     \/ b.prompt = << >>
                     \/ Hit(ObjectKeyOf[b.prompt], Opposite(b.playerFacing))
                     \/ nextFile < MaxFiles)
                      => \E q \in Reqs :
                           ENABLED GenerateObjectStart(q, b.name, b.prompt,
                                                       b.playerFacing))
  /\ [](\A r, q \in Reqs :
          (pc[r] # "idle" /\ q # r)
            => /\ pc[q] = "awaitCold" => ENABLED ColdReturn(q, TRUE)
               /\ pc[q] = "awaitReorient" => ENABLED ReorientReturn(q, TRUE))
  /\ [][\A r \in Reqs :
          (/\ pc[r] # "idle"
           /\ sent' # sent
           /\ sent'.kind = "uncache" \/ sent'.path \in {"exact", "invalid"})
            => /\ pc' = pc
               /\ req' = req
       ]_vars

\* C20 witness: a create for another identity has been taken in after the
\* request that is still waiting for its cold generation, and has been
\* answered with the image of its own generation
C20_Witness ==
  /\ SentCreateOk
  /\ sent.genCalls = 1
  /\ sent.imageUrl \in 1..MaxFiles
  /\ \E r \in Reqs :
       /\ pc[r] = "awaitCold"
       /\ req[r].out < sent.imageUrl
       /\ req[r].objectKey # sent.reqKey

\* an uncache request for the pair (k, f) is answered in this step
UncacheAnswered(k, f) ==
  /\ pc' = pc
  /\ sent'.kind = "uncache"
  /\ sent'.path = "remove"
  /\ sent'.reqKey = k
  /\ sent'.reqFacing = f
  /\ sent' # sent \/ objectImageCache' # objectImageCache
       \/ objectPrototype' # objectPrototype \/ cacheFile' # cacheFile

\* an uncache request that fails validation is answered in this step
UncacheRejected ==
  /\ sent'.kind = "uncache"
  /\ sent'.path = "invalid"
  /\ sent' # sent

\* C25, as stated, for the identities other than "__proto__": an uncache of
\* a pair the table has no entry for is answered 200 with removed=false and
\* changes neither the table nor the snapshot.
C25_MissIsNoFailure ==
  [][\A k \in PlainKeys, f \in Orientations :
       (~Entry(k, f) /\ UncacheAnswered(k, f))
         => /\ sent'.status = 200
            /\ sent'.removed = FALSE
            /\ UNCHANGED <<objectImageCache, objectPrototype, cacheFile>>
    ]_vars

\* C25, what holds: an uncache of a pair for which the server's read
\* objectImageCache[k][f] finds nothing is answered 200 with removed=false
\* and changes neither the table nor the snapshot; an uncache request without
\* objectKey or orientation is answered 400 and changes nothing either.
C25_MissOfLookup ==
  /\ [][\A k \in ObjectKeys, f \in Orientations :
          (~Stored(k, f).found /\ UncacheAnswered(k, f))
            => /\ sent'.status = 200
               /\ sent'.removed = FALSE
               /\ UNCHANGED <<objectImageCache, objectPrototype, cacheFile>>
       ]_vars
  /\ [][UncacheRejected
          => /\ sent'.status = 400
             /\ UNCHANGED <<objectImageCache, objectPrototype, cacheFile,
                            files, nextFile, pc, req>>
       ]_vars

\* C25 witness: an uncache of a pair the table has no entry of its own for
\* has been answered with an error
C25_Witness ==
  /\ sent.kind = "uncache"
  /\ sent.path = "remove"
  /\ sent.status = 500
  /\ sent.reqKey \in PlainKeys
  /\ sent.reqKey \in DOMAIN objectImageCache
  /\ ~Entry(sent.reqKey, sent.reqFacing)
  /\ cacheFile.kind = "json"
  /\ sent.reqKey \in DOMAIN cacheFile.value
  /\ sent.reqFacing \notin DOMAIN cacheFile.value[sent.reqKey]

\* C26: a create request without name or without prompt is answered 400 in
\* the step that takes it in: no output file is named, no generator call is
\* made, no request is left waiting, and the table, the snapshot and the
\* files are as before.
C26_CreateRejected ==
  [][\A r \in Reqs, b \in CreateBodies :
       (/\ b.name = "" \/ b.prompt = << >>
        /\ sent'.kind = "create"
        /\ GenerateObjectStart(r, b.name, b.prompt, b.playerFacing))
         => /\ sent'.status = 400
            /\ sent'.path = "invalid"
            /\ sent'.genCalls = 0
            /\ UNCHANGED <<objectImageCache, objectPrototype, cacheFile,
                           files, nextFile, pc, req>>
    ]_vars

\* C26 witness: a create has been answered 400 while the table held an entry
C26_Witness ==
  /\ sent.kind = "create"
  /\ sent.path = "invalid"
  /\ sent.status = 400
  /\ objectImageCache # EmptyTable
  /\ \E r \in Reqs : pc[r] # "idle"

\* the last response sent is a 200 create response that returns the pair
\* (k, f) in its objectKey and orientation fields
LastCreated(k, f) ==
  /\ sent.kind = "create"
  /\ sent.status = 200
  /\ sent.objectKey = k
  /\ sent.orientation = f

\* C29, as stated, for the identities other than "__proto__" and a writable
\* snapshot: an uncache of the pair a create response has just returned is
\* answered removed=true, after it the server holds nothing for the pair,
\* and what it holds for every other pair is as before.
C29_ReturnedPairRemoves ==
  [][\A k \in PlainKeys, f \in Orientations :
       (writable /\ LastCreated(k, f) /\ UncacheAnswered(k, f))
         => /\ sent'.status = 200
            /\ sent'.removed = TRUE
            /\ ~Stored(k, f)'.found
            /\ \A k2 \in PlainKeys, f2 \in Orientations :
                 <<k2, f2>> # <<k, f>> => Stored(k2, f2)' = Stored(k2, f2)
    ]_vars

\* C29, what holds: normalizeObjectKey and normalizeFacing are idempotent,
\* and an uncache of the pair a create response has just returned leaves the
\* table without an entry of its own for the pair (answering removed=true if
\* it had one and the snapshot is writable), changes no own entry of another
\* pair, and changes Object.prototype only when the identity is "__proto__".
C29_ReturnedPairOwnEntry ==
  /\ [](/\ \A p \in PromptInputs :
             /\ ObjectKeyOf[p] \in PromptInputs
             /\ ObjectKeyOf[ObjectKeyOf[p]] = ObjectKeyOf[p]
        /\ \A f \in FacingInputs :
             normalizeFacing(normalizeFacing(f)) = normalizeFacing(f))
  /\ [][\A k \in ObjectKeys, f \in Orientations :
          (LastCreated(k, f) /\ UncacheAnswered(k, f))
            => /\ ~OwnAt(k, f)'.found
               /\ (OwnAt(k, f).found /\ writable)
                    => (sent'.status = 200 /\ sent'.removed = TRUE)
               /\ \A k2 \in ObjectKeys, f2 \in Orientations :
                    <<k2, f2>> # <<k, f>> => OwnAt(k2, f2)' = OwnAt(k2, f2)
               /\ IF k = ProtoKey
                  THEN /\ ~ProtoAt(f)'.found
                       /\ \A f2 \in Orientations \ {f} :
                            ProtoAt(f2)' = ProtoAt(f2)
                  ELSE objectPrototype' = objectPrototype
       ]_vars

\* C29 witness: a create response has returned, with cached=true, a pair of
\* an identity other than "__proto__" that the table has no entry for
C29_Witness ==
  /\ SentCreateOk
  /\ sent.path = "exact"
  /\ sent.cached = TRUE
  /\ sent.objectKey \in PlainKeys
  /\ sent.objectKey \in DOMAIN objectImageCache
  /\ ~Entry(sent.objectKey, sent.orientation)

\* request r's handler inserts under the pair (k, f) in this step
InsertedBy(r, k, f) ==
  /\ pc[r] # "idle"
  /\ req[r].objectKey = k
  /\ req[r].objectFacing = f
  /\ GeneratedBy(r)

\* C30, as stated: an insert or a remove for the pair (k, f) leaves what the
\* server holds for every other pair, of the identities other than
\* "__proto__", as it was.
C30_OnlyAddressedPair ==
  [][\A k \in ObjectKeys, f \in Orientations :
       ((\E r \in Reqs : InsertedBy(r, k, f)) \/ RemovedNow(k, f))
         => \A k2 \in PlainKeys, f2 \in Orientations :
              <<k2, f2>> # <<k, f>> => Stored(k2, f2)' = Stored(k2, f2)
    ]_vars

\* C30, what holds: an insert or a remove for the pair (k, f) leaves every
\* own entry of the table for another pair as it was, and changes
\* Object.prototype only when k is "__proto__", and then only at f.
C30_OnlyAddressedOwnEntry ==
  [][\A k \in ObjectKeys, f \in Orientations :
       ((\E r \in Reqs : InsertedBy(r, k, f)) \/ RemovedNow(k, f))
         => /\ \A k2 \in ObjectKeys, f2 \in Orientations :
                 <<k2, f2>> # <<k, f>> => OwnAt(k2, f2)' = OwnAt(k2, f2)
            /\ \A f2 \in Orientations :
                 (k # ProtoKey \/ f2 # f) => ProtoAt(f2)' = ProtoAt(f2)
    ]_vars

\* C30 witness: an insert for the identity "__proto__" has been answered,
\* and a lookup for another identity now finds the inserted variant under an
\* orientation that identity has no entry for
C30_Witness ==
  /\ SentCreateOk
  /\ sent.genCalls = 1
  /\ sent.reqKey = ProtoKey
  /\ \E k2 \in PlainKeys :
       /\ k2 \in DOMAIN objectImageCache
       /\ ~Entry(k2, sent.reqFacing)
       /\ Stored(k2, sent.reqFacing) =
            [found |-> TRUE, variant |-> Variant(sent.imageUrl)]

----------------------------------------------------------------------------
(* Properties of the handlers that call runGenerator, under GenSpec *)

\* C21: under the fairness that the 180-second timeout of execFileAsync
\* gives, every request that waits for a generator call is eventually
\* answered; the step that ends its wait sends its one response, which is
\* 200 or 500 and is 500 when the call has left no output file, after the one
\* generator call the request has made; until then the request waits
\* unchanged, without another call.
C21_EveryRequestAnswered ==
  /\ \A r \in Reqs : (pc[r] # "idle") ~> (pc[r] = "idle")
  /\ [][\A r \in Reqs :
          pc[r] # "idle"
            => IF pc'[r] = "idle"
               THEN /\ sent'.kind = req[r].kind
                    /\ sent'.path = req[r].path
                    /\ sent'.genCalls = 1
                    /\ sent'.status \in {200, 500}
                    /\ req[r].out \notin files' => sent'.status = 500
               ELSE /\ pc'[r] = pc[r]
                    /\ req'[r] = req[r]
       ]_vars

\* C21 witness: an edit whose one generator call failed has been answered
\* 500, and no request is waiting
C21_Witness ==
  /\ sent.kind = "edit"
  /\ sent.path = "edit"
  /\ sent.status = 500
  /\ sent.genCalls = 1
  /\ nextFile > 0
  /\ \A n \in 1..MaxFiles : n \notin files
  /\ \A r \in Reqs : pc[r] = "idle"

\* the path a text resolves to, computed from its end: a ".." cancels the
\* nearest segment before it that is not itself cancelled
RECURSIVE ResolveBack(_, _)
ResolveBack(segments, skip) ==
  IF segments = << >> THEN << >>
  ELSE LET last == segments[Len(segments)]
           init == SubSeq(segments, 1, Len(segments) - 1)
       IN  IF last \in {"", "."} THEN ResolveBack(init, skip)
           ELSE IF last = ".." THEN ResolveBack(init, skip + 1)
           ELSE IF skip > 0 THEN ResolveBack(init, skip - 1)
           ELSE Append(ResolveBack(init, 0), last)

\* the URL text names a path that is neither GENERATED_DIR nor below it
ResolvesOutside(text) ==
  LET abs == ResolveBack(PUBLIC_DIR \o text, 0) IN
  ~(/\ Len(abs) >= Len(GENERATED_DIR)
    /\ SubSeq(abs, 1, Len(GENERATED_DIR)) = GENERATED_DIR)

\* the URL text does not begin with /generated/
LacksPrefix(text) == ~(Len(text) >= 2 /\ text[1] = "generated")

\* C22: an edit request with name and interaction whose imageUrl is a
\* string that does not begin with /generated/ or that resolves outside
\* GENERATED_DIR is answered 400 in the step that takes it in: no output
\* file is named, no generator call is made and no request is left waiting.
C22_UnsafePathRejected ==
  [][\A r \in Reqs, b \in EditBodies :
       (/\ b.name # "" /\ b.interaction # ""
        /\ b.imageUrl.type = "string"
        /\ b.imageUrl.text # << >>
        /\ LacksPrefix(b.imageUrl.text) \/ ResolvesOutside(b.imageUrl.text)
        /\ EditObjectStart(r, b.name, b.imageUrl, b.interaction))
         => /\ sent'.kind = "edit"
            /\ sent'.status = 400
            /\ sent'.genCalls = 0
            /\ UNCHANGED <<nextFile, pc, req, files>>
    ]_vars

\* C22 witness: an edit has been answered 400 by the path test while another
\* request is waiting for its generator call
C22_Witness ==
  /\ sent.kind = "edit"
  /\ sent.path = "unsafe"
  /\ sent.status = 400
  /\ \E r \in Reqs : pc[r] = "awaitEdit"

\* C23: no step of an edit request (taking it in, with or without an
\* answer, and the settlement of its generator call) changes the table,
\* Object.prototype or the snapshot; a successful edit writes a file of its
\* own and returns that file, so every entry that points at the edited image
\* still points at it, and the image file is still there.
C23_EditLeavesTable ==
  /\ [][\A r \in Reqs, b \in EditBodies :
          EditObjectStart(r, b.name, b.imageUrl, b.interaction)
            => UNCHANGED <<objectImageCache, objectPrototype, cacheFile,
                           files>>
       ]_vars
  /\ [][\A r \in Reqs :
          (pc[r] = "awaitEdit" /\ pc'[r] = "idle")
            => /\ UNCHANGED <<objectImageCache, objectPrototype, cacheFile>>
               /\ \A k \in ObjectKeys, f \in Orientations :
                    Stored(k, f)' = Stored(k, f)
               /\ files \subseteq files'
               /\ req[r].out \notin files
               /\ sent'.status = 200 => sent'.imageUrl = UrlOf(req[r].out)
       ]_vars

\* C23 witness: an edit of the image that backs the entry for ("a b", north)
\* has been answered 200 with another image, and the entry is as the
\* snapshot gave it
C23_Witness ==
  /\ sent.kind = "edit"
  /\ sent.status = 200
  /\ sent.reqEditAbs = GENERATED_DIR \o <<ToString(PresetUrl)>>
  /\ sent.imageUrl # UrlOf(PresetUrl)
  /\ Stored(<<"a", " ", "b">>, "north") =
       [found |-> TRUE, variant |-> Variant(PresetUrl)]
  /\ PresetUrl \in files

\* C24: no step of a wall-texture request changes the table,
\* Object.prototype or the snapshot.  A request with a prompt, when
\* MASTER_WALL_TEXTURE is missing, is answered 500 without an output file
\* being named or a generator call made; otherwise it names a new output
\* file and goes to runGenerator, whatever was generated before: it waits for
\* a generator call of its own, or is answered 500 when the credentials are
\* missing; and its 200 response returns the file of its own call.
C24_WallTextureFresh ==
  /\ [][\A r \in Reqs, p \in WallPromptInputs :
          WallTextureStart(r, p)
            => /\ UNCHANGED <<objectImageCache, objectPrototype, cacheFile,
                              files>>
               /\ p \notin {Undefined, "", "<number>"}
                    => IF MASTER_WALL_TEXTURE \notin files
                       THEN /\ sent'.kind = "wall"
                            /\ sent'.status = 500
                            /\ sent'.genCalls = 0
                            /\ UNCHANGED <<nextFile, pc, req>>
                       ELSE /\ nextFile' = nextFile + 1
                            /\ IF apiKey
                               THEN /\ pc'[r] = "awaitWall"
                                    /\ req'[r].genCalls = 1
                                    /\ req'[r].out = nextFile'
                                    /\ req'[r].out \notin files
                               ELSE /\ sent'.kind = "wall"
                                    /\ sent'.status = 500
                                    /\ pc' = pc
       ]_vars
  /\ [][\A r \in Reqs :
          (pc[r] = "awaitWall" /\ pc'[r] = "idle")
            => /\ UNCHANGED <<objectImageCache, objectPrototype, cacheFile>>
               /\ sent'.status = 200 => sent'.imageUrl = UrlOf(req[r].out)
       ]_vars

\* C24 witness: a wall-texture request has been answered 200, and the next
\* one waits for a generator call of its own that writes another file
C24_Witness ==
  /\ sent.kind = "wall"
  /\ sent.status = 200
  /\ \E r \in Reqs :
       /\ pc[r] = "awaitWall"
       /\ req[r].genCalls = 1
       /\ UrlOf(req[r].out) # sent.imageUrl
       /\ req[r].out \notin files

\* C27: when GEMINI_API_KEY is not set, every step in which a handler names
\* an output file, which each does just before it calls runGenerator, is
\* answered 500 without a generator subprocess; no request ever waits for
\* one, no output file is ever written, and the table, Object.prototype and
\* the snapshot are never changed after startup.
C27_NoCredentials ==
  /\ [](~apiKey => /\ \A r \in Reqs : pc[r] = "idle"
                   /\ \A n \in 1..MaxFiles : n \notin files
                   /\ objectPrototype = << >>)
  /\ [][(~apiKey /\ nextFile' # nextFile)
          => /\ sent'.status = 500
             /\ sent'.genCalls = 0
             /\ sent'.path \in {"cold", "reorient", "edit", "wall"}
             /\ UNCHANGED <<objectImageCache, objectPrototype, cacheFile,
                            files, pc, req>>
       ]_vars

\* C27 witness: without credentials an edit with a safe path has been
\* answered 500, as the request before it that named an output file was
C27_Witness ==
  /\ ~apiKey
  /\ sent.kind = "edit"
  /\ sent.path = "edit"
  /\ sent.status = 500
  /\ sent.genCalls = 0
  /\ nextFile = MaxFiles

----------------------------------------------------------------------------
(* Properties of the client, under ClientSpec *)

\* the object carries an objectKey and an orientation
CarriesBoth(o) == o.objectKey # << >> /\ o.orientation # Undefined

\* C28: a step that deletes the placed object of a tile issues an uncache
\* request for the object's (objectKey, orientation) if the object carries
\* both and no object that is left in the map carries the same two, and
\* issues no request otherwise; an object that is pending is not deleted by
\* deleteObjectAhead, and no other step issues an uncache request.
C28_UncacheOnLastInstance ==
  /\ [][\A key \in DOMAIN objects \ DOMAIN objects' :
          ~objects[key].pending
            => IF /\ CarriesBoth(objects[key])
                  /\ \A other \in DOMAIN objects' :
                       ~(/\ objects'[other].objectKey = objects[key].objectKey
                         /\ objects'[other].orientation
                              = objects[key].orientation)
               THEN fetched' = UncacheFetch(objects[key].objectKey,
                                            objects[key].orientation)
               ELSE fetched' = NoFetch
       ]_vars
  /\ [][fetched'.kind = "uncache"
          => \E key \in DOMAIN objects :
               ~has(objects', key) /\ ~objects[key].pending
       ]_vars
  /\ [][DeleteObjectAhead
          => \/ UNCHANGED objects /\ fetched' = NoFetch
             \/ /\ has(objects, AheadKey)
                /\ ~objects[AheadKey].pending
                /\ objects' = MapDelete(objects, AheadKey)
       ]_vars

\* C28 witness: the last step has deleted an object and issued an uncache
\* request for its pair while an object of the same identity under another
\* orientation, and a pending object, are left in the map
C28_Witness ==
  /\ fetched.kind = "uncache"
  /\ \E other \in DOMAIN objects :
       /\ objects[other].objectKey = fetched.objectKey
       /\ objects[other].orientation # fetched.orientation
       /\ CarriesBoth(objects[other])
  /\ \E other \in DOMAIN objects : objects[other].pending
  /\ \A other \in DOMAIN objects :
       ~(/\ objects[other].objectKey = fetched.objectKey
         /\ objects[other].orientation = fetched.orientation)

\* the call opId of interact() awaits its response, and the tile it works on
\* holds the pending object that the call has set, with the call's opId
HoldsPlaceholder(opId) ==
  /\ Mine(ops[opId].key, opId)
  /\ objects[ops[opId].key].pending
  /\ objects[ops[opId].key].pendingKind = ops[opId].kind

\* C31: no two calls that await a response work on the same tile; the tile
\* of every such call holds the pending object with the call's opId, and
\* every pending object is the one of such a call; and a pending object is
\* changed or removed only by the step that receives the response of its
\* call (not by an edit, a deletion or a wall).
C31_OneOperationPerTile ==
  /\ [](\A a \in DOMAIN ops, b \in DOMAIN ops :
          ops[a].key = ops[b].key => a = b)
  /\ [](\A opId \in DOMAIN ops : HoldsPlaceholder(opId))
  /\ [](\A key \in DOMAIN objects :
          objects[key].pending
            => /\ has(ops, objects[key].opId)
               /\ ops[objects[key].opId].key = key)
  /\ [][\A key \in DOMAIN objects :
          (/\ objects[key].pending
           /\ \/ ~has(objects', key)
              \/ objects'[key] # objects[key])
            => /\ has(ops, objects[key].opId)
               /\ ~has(ops', objects[key].opId)
       ]_vars

\* C31 witness: the player faces an object whose edit awaits its response
\* while the placeholder of a create waits on another tile, and the last
\* step (a key of the player, or a response) has issued no request
C31_Witness ==
  /\ ~modal.open
  /\ fetched = NoFetch
  /\ has(objects, AheadKey)
  /\ objects[AheadKey].pending
  /\ objects[AheadKey].pendingKind = "edit"
  /\ \E other \in DOMAIN objects :
       /\ objects[other].pending
       /\ objects[other].pendingKind = "create"
  /\ \A opId \in DOMAIN ops : HoldsPlaceholder(opId)

\* C32: a create that fails leaves its tile free; an edit that fails leaves
\* on its tile the object that was there when the edit started: the call
\* has recorded that object when it marked it pending, the record does not
\* change while the call waits, and the failure puts the record back, which
\* is not pending and has the imageUrl, objectKey and orientation that the
\* pending object shows.
C32_FailureRollsBack ==
  /\ [][\A opId \in DOMAIN ops :
          /\ (ops[opId].kind = "create"
                /\ CreateResponse(opId, FALSE, << >>, Undefined))
               => ~has(objects', ops[opId].key)
          /\ (ops[opId].kind = "edit" /\ EditResponse(opId, FALSE))
               => /\ has(objects', ops[opId].key)
                  /\ objects'[ops[opId].key] = ops[opId].old
                  /\ ~objects'[ops[opId].key].pending
                  /\ objects'[ops[opId].key].imageUrl
                       = objects[ops[opId].key].imageUrl
                  /\ objects'[ops[opId].key].objectKey
                       = objects[ops[opId].key].objectKey
                  /\ objects'[ops[opId].key].orientation
                       = objects[ops[opId].key].orientation
       ]_vars
  /\ [][\A opId \in DOMAIN ops' :
          IF has(ops, opId)
          THEN ops'[opId] = ops[opId]
          ELSE ops'[opId].kind = "edit"
                 => /\ has(objects, ops'[opId].key)
                    /\ ops'[opId].old = objects[ops'[opId].key]
                    /\ ~ops'[opId].old.pending
       ]_vars

\* C32 witness: a create and an edit await their responses, each of which
\* can be a failure; the object of the edit carries an objectKey and an
\* orientation and the image of an earlier edit
C32_Witness ==
  /\ \E opId \in DOMAIN ops :
       /\ ops[opId].kind = "edit"
       /\ ops[opId].old.imageUrl = "edited"
       /\ CarriesBoth(ops[opId].old)
       /\ Mine(ops[opId].key, opId)
  /\ \E opId \in DOMAIN ops :
       /\ ops[opId].kind = "create"
       /\ Mine(ops[opId].key, opId)

\* the tile the player stands on
PlayerKey == tileKey(player.x, player.y)

\* C33: the tile of the player never holds an object; a step that moves the
\* player moves it to a tile that holds no object; and a step that puts an
\* object on a free tile puts it on the tile ahead of the player.
C33_PlayerTileFree ==
  /\ [](~has(objects, PlayerKey))
  /\ [][PlayerKey' # PlayerKey
          => ~has(objects, PlayerKey') /\ ~has(objects', PlayerKey')
       ]_vars
  /\ [][\A key \in DOMAIN objects' \ DOMAIN objects :
          key = AheadKey /\ key = AheadKey'
       ]_vars

\* C33 witness: the player has left the tile it started on and faces the
\* placeholder of a create, and two more tiles hold objects: every tile but
\* the player's is occupied
C33_Witness ==
  /\ PlayerKey # tileKey(0, 0)
  /\ ~modal.open
  /\ has(objects, AheadKey)
  /\ objects[AheadKey].pending
  /\ objects[AheadKey].pendingKind = "create"
  /\ DOMAIN objects = Tiles \ {PlayerKey}

====
